---- MODULE Spec2Model ----
(***************************************************************************)
(* Verification model of the paginated fetch engine                        *)
(* offsetPaginatedNgSelectState (offset-paginated-ng-select-state.ts).     *)
(*                                                                         *)
(* The engine is a set of Angular signals (internalState) driven by two    *)
(* RxJS pipelines.  RxJS 7 semantics are used throughout (README: rxjs     *)
(* ^7.0.0): switchMap unsubscribes the previous inner observable BEFORE it *)
(* evaluates its projection, finalize runs on unsubscribe, takeUntil       *)
(* completes the inner observable when the abort notifier emits, and an    *)
(* unsubscribed HttpClient request never delivers its response.            *)
(*                                                                         *)
(* JavaScript objects are modelled as sequences of <<key, value>> pairs in *)
(* insertion order, which is the order JSON.stringify serialises them in.  *)
(***************************************************************************)
EXTENDS Integers, Sequences, FiniteSets, TLC

\* ---------------------------------------------------------------- bounds
MaxFetches    == 3   \* loadDataFromApi invocations explored per behaviour, no caching
MaxCachedFetches == 2 \* the same, for an instance with caching enabled
MaxPage       == 3   \* largest page number explored
DataSize      == 3   \* number of items the server holds
DataLimit     == 2   \* dataLimitPerRequest chosen for the instance
CacheTtlTicks == 2   \* cacheTtlSec, in clock ticks
MaxBurst      == 2   \* search inputs counted within one burst

\* ------------------------------------------------------------- JS values
Null == "null"
SearchTerms == {"", "jo"}
ParamKeys == {"a", "b", "Page"}

\* the inputs explored for an instance constructed with options o: the empty
\* term matters to searchOnlyMode, the order of two parameters to the cache
\* key; an instance with caching explores one of the two
TermsFor(o) == IF o.useCache /\ ~o.searchOnlyMode THEN SearchTerms \ {""} ELSE SearchTerms
ParamKeysFor(o) == IF o.useCache /\ o.searchOnlyMode THEN ParamKeys \ {"b"} ELSE ParamKeys
ParamVals == {"1"}

\* the raw terms a caller hands to typeaheadSubject.next and onSearch
SearchInputs == {"", "jo "}

\* the typeahead stream has not emitted yet
NoValue == "no value"

\* String.prototype.trim on the terms the model uses
trim(s) == CASE s = "jo " -> "jo" [] OTHER -> s
Bodies == {Null, "body1"}
Url == "/api/items"
EmptyMap == [k \in {} |-> 0]

\* String.prototype.toLowerCase on the keys the model uses
toLowerCase(k) ==
  CASE k = "Page" -> "page"
    [] k \in {"searchText", "SearchText"} -> "searchtext"
    [] OTHER -> k

\* ------------------------------------------------------------ JS objects
ObjKeys(o) == {o[i][1] : i \in DOMAIN o}

ObjSet(o, k, v) ==
  IF k \in ObjKeys(o)
    THEN [i \in DOMAIN o |-> IF o[i][1] = k THEN <<k, v>> ELSE o[i]]
    ELSE Append(o, <<k, v>>)

ObjDelete(o, k) == SelectSeq(o, LAMBDA p : p[1] # k)

RECURSIVE Spread(_, _)
Spread(o1, o2) ==
  IF o2 = <<>> THEN o1
  ELSE Spread(ObjSet(o1, Head(o2)[1], Head(o2)[2]), Tail(o2))

cleanNullishFromObject(o) == SelectSeq(o, LAMBDA p : p[2] # Null)

\* a clear that drops nothing
cacheClearKeeps(c) == c

\* Map.prototype.clear
cacheClear(c) == EmptyMap

\* Map.prototype.set
cacheSet(c, k, v) == [x \in DOMAIN c \cup {k} |-> IF x = k THEN v ELSE c[x]]

\* ---------------------------------------------------------------- config
optionsWithDefaultValue ==
  [ searchQueryParamKey |-> "searchText",
    pageQueryParamKey |-> "page",
    limitQueryParamKey |-> "limit",
    searchOnlyMode |-> FALSE,
    requestMethod |-> "GET",
    queryParams |-> <<>>,
    postRequestBody |-> Null,
    dataLimitPerRequest |-> DataLimit,
    useCache |-> FALSE,
    disableCacheExpiration |-> FALSE,
    onError |-> "none",
    dataArrayKey |-> "payload",
    totalDataCountKey |-> "totalCount" ]

\* the options an instance is constructed with:
\* <<useCache, requestMethod, searchOnlyMode, disableCacheExpiration>>
Options(c) ==
  [optionsWithDefaultValue EXCEPT !.useCache = c[1], !.requestMethod = c[2],
                                  !.searchOnlyMode = c[3],
                                  !.disableCacheExpiration = c[4]]

\* the instances explored: <<options, the server's data set may shrink>>
Scenarios ==
  { <<Options(<<FALSE, "GET", FALSE, FALSE>>), TRUE>>,
    <<Options(<<TRUE, "GET", FALSE, FALSE>>), FALSE>>,
    <<Options(<<TRUE, "POST", TRUE, TRUE>>), FALSE>> }

\* instances constructed with an onError callback, one that returns and one
\* that throws
ErrorScenarios ==
  { <<[Options(<<FALSE, "GET", FALSE, FALSE>>) EXCEPT !.onError = h], FALSE>> :
      h \in {"returns", "throws"} }

\* instances driven through typeaheadSubject and onSearch
SearchScenarios ==
  { <<Options(<<FALSE, "GET", som, FALSE>>), FALSE>> : som \in BOOLEAN }

defaultData == [payload |-> <<>>, totalCount |-> 0]

defaultResetOpts == [resetQueryParams |-> FALSE, resetBody |-> FALSE, resetCache |-> FALSE]

ResetOptions == [resetQueryParams : BOOLEAN, resetBody : BOOLEAN, resetCache : BOOLEAN]

VARIABLES
  mergedOptions,            \* construction-time options
  currentPage, isCurrentPageSuccessful, isAllDataLoaded, isLoading,
  isSelectPanelOpen, loadedData, cache, searchText, postRequestBody,
  queryParamsFromUser,      \* the signals of internalState
  inflight,                 \* the subscribed HTTP calls that have not completed, each
                            \* with the data accumulated when it was issued
  destroyed,                \* DestroyRef has fired
  aborted,                  \* the abort notifier has cancelled a running call
  sinceSweep,               \* clock ticks since the interval timer last fired
  httpCalls,                \* number of http.get / http.post calls made
  fetches,                  \* number of loadDataFromApi invocations
  mergedSeq,                \* handleApiResponse calls since the last reset:
                            \* [page, stale, totalCount]
  served,                   \* key object -> response, since the cache was last cleared
  lastFetched,              \* <<>> or <<[key, age, cleared]>>: the latest successful HTTP fetch
                            \* of a caching instance, its age in ticks, and whether the
                            \* cache has been cleared on request since
  driftingServer,           \* the server's data set may shrink between calls
  serverHonest,             \* every response so far reported totalCount = DataSize
  subscribed,               \* the apiCallNotification pipeline is subscribed
  typeaheadValue,           \* the latest value of typeAhead$, NoValue before the first
  searchTermFromSearchEvent,\* the signal onSearch writes
  debouncePending,          \* debounceTime holds a value and its timer is running
  burst,                    \* <<>> or <<[count, last, onSearch]>>: the search inputs made
                            \* since the input was last quiet for debounceTimeMs
  onErrorCalls,             \* number of times mergedOptions.onError has been invoked
  lastError,                \* <<>> or <<[fetch, error]>>: the latest invocation of onError
  dataSetSize,              \* number of items the server holds
  helper,                   \* an instance of the class NgSelectHelper: its fields,
                            \* its two pipelines and the calls they have in flight
  tableState,               \* an instance of offsetPaginatedPrimeNgTableState: its
                            \* signals, its pending effect and the call in flight
  tableHelper,              \* an instance of PrimengPagedDataTableStateHelper or of
                            \* PrimeNgDynamicTableStateHelper and its awaited calls
  storage,                  \* an instance of MemoizedDataStorage and its awaited calls
  signals                   \* the signals the computed finalQueryParams reads, and
                            \* the value the computed has memoized

stateVars == << mergedOptions, currentPage, isCurrentPageSuccessful, isAllDataLoaded,
           isLoading, isSelectPanelOpen, loadedData, cache, searchText,
           postRequestBody, queryParamsFromUser, inflight, destroyed, aborted,
           sinceSweep, httpCalls, fetches, mergedSeq, served,
           lastFetched, driftingServer, serverHonest, subscribed,
           typeaheadValue, searchTermFromSearchEvent, debouncePending, burst,
           onErrorCalls, lastError, dataSetSize >>

vars == << stateVars, helper, tableState, tableHelper, storage, signals >>

\* the whole state as one record, so that a handler is a function on it
W == [ mergedOptions |-> mergedOptions, currentPage |-> currentPage,
       isCurrentPageSuccessful |-> isCurrentPageSuccessful,
       isAllDataLoaded |-> isAllDataLoaded, isLoading |-> isLoading,
       isSelectPanelOpen |-> isSelectPanelOpen, loadedData |-> loadedData,
       cache |-> cache, searchText |-> searchText,
       postRequestBody |-> postRequestBody,
       queryParamsFromUser |-> queryParamsFromUser, inflight |-> inflight,
       destroyed |-> destroyed, aborted |-> aborted,
       sinceSweep |-> sinceSweep, httpCalls |-> httpCalls, fetches |-> fetches,
       mergedSeq |-> mergedSeq, served |-> served,
       lastFetched |-> lastFetched, driftingServer |-> driftingServer,
       serverHonest |-> serverHonest, subscribed |-> subscribed,
       typeaheadValue |-> typeaheadValue,
       searchTermFromSearchEvent |-> searchTermFromSearchEvent,
       debouncePending |-> debouncePending, burst |-> burst,
       onErrorCalls |-> onErrorCalls, lastError |-> lastError ]

Set(w) ==
  /\ dataSetSize' = dataSetSize
  /\ helper' = helper
  /\ tableState' = tableState
  /\ tableHelper' = tableHelper
  /\ storage' = storage
  /\ signals' = signals
  /\ mergedOptions' = w.mergedOptions
  /\ currentPage' = w.currentPage
  /\ isCurrentPageSuccessful' = w.isCurrentPageSuccessful
  /\ isAllDataLoaded' = w.isAllDataLoaded
  /\ isLoading' = w.isLoading
  /\ isSelectPanelOpen' = w.isSelectPanelOpen
  /\ loadedData' = w.loadedData
  /\ cache' = w.cache
  /\ searchText' = w.searchText
  /\ postRequestBody' = w.postRequestBody
  /\ queryParamsFromUser' = w.queryParamsFromUser
  /\ inflight' = w.inflight
  /\ destroyed' = w.destroyed
  /\ aborted' = w.aborted
  /\ sinceSweep' = w.sinceSweep
  /\ httpCalls' = w.httpCalls
  /\ fetches' = w.fetches
  /\ mergedSeq' = w.mergedSeq
  /\ served' = w.served
  /\ lastFetched' = w.lastFetched
  /\ driftingServer' = w.driftingServer
  /\ serverHonest' = w.serverHonest
  /\ subscribed' = w.subscribed
  /\ typeaheadValue' = w.typeaheadValue
  /\ searchTermFromSearchEvent' = w.searchTermFromSearchEvent
  /\ debouncePending' = w.debouncePending
  /\ burst' = w.burst
  /\ onErrorCalls' = w.onErrorCalls
  /\ lastError' = w.lastError

\* the exploration bounds, applied to the state a handler produces
Bounded(w) ==
  /\ w.fetches <= (IF w.mergedOptions.useCache THEN MaxCachedFetches ELSE MaxFetches)
  /\ w.currentPage <= MaxPage

\* a handler's result, within the exploration bounds
Do(w) == Bounded(w) /\ Set(w)

blackListedQueryKeys(o) ==
  { toLowerCase(k) : k \in { o.searchQueryParamKey, o.pageQueryParamKey, o.limitQueryParamKey } }

\* ------------------------------------------------------- request / key
finalQueryParams(w) ==
  LET o == w.mergedOptions
      val == Spread(ObjSet(ObjSet(<<>>, o.pageQueryParamKey, ToString(w.currentPage)),
                           o.limitQueryParamKey, ToString(o.dataLimitPerRequest)),
                    cleanNullishFromObject(w.queryParamsFromUser))
  IN  IF w.searchText # Null
        THEN ObjSet(val, o.searchQueryParamKey, w.searchText)
        ELSE ObjDelete(val, o.searchQueryParamKey)

\* the CacheKey object of loadDataFromApi; body is deleted unless POST
CacheKey(w) ==
  [ url |-> Url,
    body |-> IF w.mergedOptions.requestMethod = "POST" THEN <<w.postRequestBody>> ELSE <<>>,
    queryParams |-> finalQueryParams(w) ]

RECURSIVE stringifyPairs(_)
stringifyPairs(o) ==
  IF o = <<>> THEN <<>>
  ELSE <<Head(o)[1], Head(o)[2]>> \o stringifyPairs(Tail(o))

\* JSON.stringify of a CacheKey: its properties in insertion order
JSONstringify(key) ==
  <<"url", key.url>>
    \o (IF key.body # <<>> THEN <<"body", key.body[1]>> ELSE <<>>)
    \o <<"queryParams">> \o stringifyPairs(key.queryParams)

\* cache.clear(), with the bookkeeping of what was dropped
clearCacheOf(w) ==
  [w EXCEPT !.cache = cacheClear(@),
            !.served = EmptyMap]

\* cache.clear() asked for by the caller (clearCache, resetCache, teardown)
clearCacheOnRequest(w) ==
  [clearCacheOf(w) EXCEPT
     !.lastFetched = [i \in DOMAIN @ |-> [@[i] EXCEPT !.cleared = TRUE]]]

\* ------------------------------------------------------------- pipeline
\* finalize runs but the HTTP call is left running
unsubscribeInnerLeaks(w) == [w EXCEPT !.isLoading = FALSE]

\* a request pipeline without its finalize operator
finalizeSkipped(w) == w

\* finalize(() => isLoading.set(false)): runs when the inner observable
\* completes, errors or is unsubscribed
finalize(w) == [w EXCEPT !.isLoading = FALSE]

\* unsubscribing the inner observable: the HTTP call is cancelled and
\* finalize sets isLoading to false
unsubscribeInner(w) ==
  IF w.inflight = {} THEN w
  ELSE finalize([w EXCEPT !.inflight = {}])

\* the request pipeline without takeUntil(apiCallAbortNotifier)
abortNotifierNextUnobserved(w) == w

\* apiCallAbortNotifier.next(): takeUntil completes the running inner observable
abortNotifierNext(w) ==
  IF w.destroyed THEN w
  ELSE [unsubscribeInner(w) EXCEPT !.aborted = @ \/ (w.inflight # {})]

\* bookkeeping: a call that is still subscribed now predates a reset
supersede(w) ==
  [w EXCEPT !.inflight = {[r EXCEPT !.stale = TRUE] : r \in @}]

\* a reset that leaves the accumulated data in place
resetKeepsData(w, options) ==
  LET w1 == supersede(abortNotifierNext(w))
      w2 == [w1 EXCEPT !.currentPage = 1,
                       !.isCurrentPageSuccessful = FALSE,
                       !.searchText = Null,
                       !.isAllDataLoaded = FALSE,
                       !.isLoading = FALSE,
                       !.postRequestBody =
                          IF options.resetBody THEN w.mergedOptions.postRequestBody ELSE @,
                       !.queryParamsFromUser =
                          IF options.resetQueryParams THEN w.mergedOptions.queryParams ELSE @,
                       !.mergedSeq = <<>>]
  IN  IF options.resetCache THEN clearCacheOnRequest(w2) ELSE w2

reset(w, options) ==
  LET w1 == supersede(abortNotifierNext(w))
      w2 == [w1 EXCEPT !.currentPage = 1,
                       !.isCurrentPageSuccessful = FALSE,
                       !.searchText = Null,
                       !.loadedData = defaultData,
                       !.isAllDataLoaded = FALSE,
                       !.isLoading = FALSE,
                       !.postRequestBody =
                          IF options.resetBody THEN w.mergedOptions.postRequestBody ELSE @,
                       !.queryParamsFromUser =
                          IF options.resetQueryParams THEN w.mergedOptions.queryParams ELSE @,
                       !.mergedSeq = <<>>]
  IN  IF options.resetCache THEN clearCacheOnRequest(w2) ELSE w2

\* req is the request the data answers: [page, stale]
handleApiResponse(w, newData, req) ==
  LET fresh == [i \in 1..Len(newData.payload) |->
                  [id |-> newData.payload[i], old |-> FALSE]]
      ld == IF Len(newData.payload) > 0
              THEN [payload |-> w.loadedData.payload \o fresh,
                    totalCount |-> newData.totalCount]
              ELSE w.loadedData
  IN  [w EXCEPT !.isCurrentPageSuccessful = TRUE,
                !.loadedData = ld,
                !.isAllDataLoaded = (Len(ld.payload) = newData.totalCount),
                !.mergedSeq = Append(@, [page |-> req.page, stale |-> req.stale,
                                         totalCount |-> newData.totalCount])]

\* loadDataFromApi without the cache lookup
loadDataFromApiUncached(w) ==
  LET key == CacheKey(w)
  IN  [w EXCEPT !.fetches = @ + 1,
                !.isLoading = TRUE,
                !.httpCalls = @ + 1,
                !.inflight = @ \cup {[key |-> key, strKey |-> JSONstringify(key),
                                      page |-> w.currentPage, stale |-> FALSE,
                                      dataBefore |-> w.loadedData]}]

loadDataFromApi(w) ==
  LET o == w.mergedOptions
      key == CacheKey(w)
      strKey == JSONstringify(key)
      w1 == [w EXCEPT !.fetches = @ + 1]
  IN  IF o.useCache /\ strKey \in DOMAIN w.cache
        THEN handleApiResponse(w1, w.cache[strKey],
                               [page |-> w.currentPage, stale |-> FALSE])
        ELSE [w1 EXCEPT !.isLoading = TRUE,
                        !.httpCalls = @ + 1,
                        !.inflight = @ \cup {[key |-> key, strKey |-> strKey,
                                              page |-> w.currentPage,
                                              stale |-> FALSE,
                                              dataBefore |-> w.loadedData]}]

\* apiCallNotification.next() through switchMap
notifyApiCall(w) ==
  IF w.destroyed \/ ~w.subscribed THEN w
  ELSE LET w1 == unsubscribeInner(w)
       IN  IF w1.isLoading \/ w1.isAllDataLoaded \/ ~w1.isSelectPanelOpen
             THEN w1
             ELSE loadDataFromApi(w1)

\* a catchError that maps the error to null without reporting it
catchErrorSilent(w, error) == w

\* a catchError that calls onError outside any try block: what the callback
\* throws errors the inner observable and, through switchMap, the subscription
catchErrorRethrows(w, error) ==
  IF w.mergedOptions.onError = "none" THEN w
  ELSE [w EXCEPT !.onErrorCalls = @ + 1,
                 !.lastError = <<[fetch |-> w.fetches, error |-> error]>>,
                 !.subscribed = @ /\ (w.mergedOptions.onError # "throws")]

\* the catchError callback: onError, if configured, is called with the error
\* inside try/catch, and the error is mapped to null
catchError(w, error) ==
  IF w.mergedOptions.onError = "none" THEN w
  ELSE [w EXCEPT !.onErrorCalls = @ + 1,
                 !.lastError = <<[fetch |-> w.fetches, error |-> error]>>]

\* --------------------------------------------------------------- server
Min(a, b) == IF a < b THEN a ELSE b
Max(a, b) == IF a > b THEN a ELSE b

\* JSON values of a response body: the typeof tag and the content
JsNull == [type |-> "null", value |-> <<>>]
JsNumber(n) == [type |-> "number", value |-> <<n>>]
JsArray(items) == [type |-> "array", value |-> items]
JsObject(props) == [type |-> "object", value |-> props]
JsString == [type |-> "string", value |-> <<>>]

\* the HTTP call itself failed
TransportError == [type |-> "error", value |-> <<>>]

\* o[k] of a JS object that has the property
ObjGet(o, k) == o[CHOOSE i \in DOMAIN o : o[i][1] = k][2]

\* an isValidData that does not look at the type of the count
isValidDataLoose(dataArrayKey, dataCountKey, rawData) ==
  /\ rawData.type = "object"
  /\ dataArrayKey \in ObjKeys(rawData.value)
  /\ dataCountKey \in ObjKeys(rawData.value)
  /\ ObjGet(rawData.value, dataArrayKey).type = "array"

isValidData(dataArrayKey, dataCountKey, rawData) ==
  /\ rawData.type = "object"
  /\ dataArrayKey \in ObjKeys(rawData.value)
  /\ dataCountKey \in ObjKeys(rawData.value)
  /\ ObjGet(rawData.value, dataArrayKey).type = "array"
  /\ ObjGet(rawData.value, dataCountKey).type = "number"

\* the DataContainer built from a valid body
dataInContainer(o, rawData) ==
  [ payload |-> ObjGet(rawData.value, o.dataArrayKey).value,
    totalCount |-> ObjGet(rawData.value, o.totalDataCountKey).value[1] ]

\* the slice of the fixed data set 1..dataSetSize that page p covers
PageItems(p, limit) ==
  [i \in 1..Max(0, Min(limit, dataSetSize - (p - 1) * limit)) |-> (p - 1) * limit + i]

ReportedTotals(drifting) ==
  IF drifting THEN {dataSetSize - 1, dataSetSize} ELSE {dataSetSize}

\* the body the server sends for page p
ResponseBody(p, limit, tc) ==
  JsObject(<< <<"payload", JsArray(PageItems(p, limit))>>,
              <<"totalCount", JsNumber(tc)>> >>)

\* what a failing call ends with: a transport error, or a body that is null,
\* lacks the count key, holds a payload that is no array, is itself an array,
\* or holds a count that is no number
FailedResponses(p, limit) ==
  { TransportError,
    JsNull,
    JsObject(<< <<"payload", JsArray(PageItems(p, limit))>> >>),
    JsObject(<< <<"payload", JsNull>>, <<"totalCount", JsNumber(DataSize)>> >>),
    JsArray(PageItems(p, limit)),
    JsObject(<< <<"payload", JsArray(PageItems(p, limit))>>, <<"totalCount", JsString>> >>) }

\* ------------------------------------------------- class NgSelectHelper
\* the objects a caller passes as query parameters and as body
NgSelectHelperQueryParams == { <<>>, << <<"a", "1">> >> }
NgSelectHelperBodies == { <<>>, << <<"b", "1">> >> }

\* the initial #debounceTimeInSec, one second, in tenths of a second
OneSecond == 10

NgSelectPagedDataResponse(payload, totalCount) ==
  [payload |-> payload, totalCount |-> totalCount]

\* new NgSelectHelper(...): the fields, no pipeline subscribed, nothing pending
\* in debounceTime, no call in flight. requests holds the subscribed calls:
\* [pipe, page, key, superseded], superseded once resetAll() has run since.
\* emitted: helpers$ has emitted an array that holds the instance;
\* ajaxErrorSubscribers: the subscriptions of onAjaxError to ajaxError$;
\* onAjaxErrorCalls: the calls of onAjaxError made so far.
\* debounceTimeInSec is kept in tenths of a second, so that 0.5 s is 5;
\* debounceDueTimeMs is the dueTime, in ms, that init() has handed to
\* debounceTime, 0 before init()
NgSelectHelper(usePostRequest, useCache, initialSearchText) ==
  [ usePostRequest |-> usePostRequest,
    useCache |-> useCache,
    limit |-> DataLimit,
    cache |-> EmptyMap,
    queryParams |-> <<>>,
    body |-> <<>>,
    initDone |-> FALSE,
    searchText |-> initialSearchText,
    page |-> 1,
    totalCount |-> -1,
    isLastApiCallSuccessful |-> TRUE,
    limitReached |-> FALSE,
    loadedData |-> NgSelectPagedDataResponse(<<>>, 0),
    isLoading |-> FALSE,
    runningApiReq |-> Null,
    requests |-> {},
    debounced |-> <<>>,
    destroyed |-> FALSE,
    httpCalls |-> 0,
    fetches |-> 0,
    debounceTimeInSec |-> OneSecond,
    debounceDueTimeMs |-> 0,
    emitted |-> FALSE,
    ajaxErrorSubscribers |-> 0,
    onAjaxErrorCalls |-> 0 ]

NgSelectHelperResetOpts == ResetOptions

resetAll(h, opts) ==
  LET h1 == IF h.runningApiReq # Null
              THEN [h EXCEPT !.requests = {}, !.runningApiReq = Null]
              ELSE h
  IN  [h1 EXCEPT !.isLastApiCallSuccessful = TRUE,
                 !.page = 1,
                 !.totalCount = -1,
                 !.limitReached = FALSE,
                 !.searchText = "",
                 !.cache = IF opts.resetCache THEN cacheClear(@) ELSE @,
                 !.loadedData = NgSelectPagedDataResponse(<<>>, 0),
                 !.isLoading = FALSE,
                 !.queryParams = IF opts.resetQueryParams THEN <<>> ELSE @,
                 !.body = IF opts.resetBody THEN <<>> ELSE @,
                 !.requests = {[r EXCEPT !.superseded = TRUE] : r \in @}]

resetSearchText(h) == [h EXCEPT !.searchText = ""]

runProbablePageCounterUpdate(h) ==
  IF h.isLastApiCallSuccessful /\ ~h.limitReached
    THEN [h EXCEPT !.page = @ + 1]
    ELSE h

runLimitReachedCheck(h) ==
  IF h.totalCount # -1
    THEN [h EXCEPT !.limitReached = (Len(h.loadedData.payload) >= h.totalCount)]
    ELSE h

updateStateOnSuccessfulInitialApiCall(h, data) ==
  [h EXCEPT !.loadedData = NgSelectPagedDataResponse(data.payload, data.totalCount),
            !.totalCount = data.totalCount,
            !.isLastApiCallSuccessful = TRUE]

updateStateOnSuccessfulSubsequentApiCall(h, data) ==
  [h EXCEPT !.loadedData = NgSelectPagedDataResponse(@.payload \o data.payload,
                                                     data.totalCount),
            !.totalCount = data.totalCount,
            !.isLastApiCallSuccessful = TRUE]

updateStateOnFailedApiCall(h) == [h EXCEPT !.isLastApiCallSuccessful = FALSE]

\* the next callback of the subscriber of pipeline pipe; res is a response
\* or <<>> for null
subscriberNext(h, pipe, res) ==
  IF res = <<>> THEN updateStateOnFailedApiCall(h)
  ELSE IF pipe = "input" THEN updateStateOnSuccessfulInitialApiCall(h, res[1])
  ELSE updateStateOnSuccessfulSubsequentApiCall(h, res[1])

\* switchMap drops the inner observable of pipeline pipe: its call is
\* aborted and its finalize runs
switchMapUnsubscribe(h, pipe) ==
  IF \E r \in h.requests : r.pipe = pipe
    THEN [h EXCEPT !.requests = {r \in @ : r.pipe # pipe}, !.isLoading = FALSE]
    ELSE h

\* loadDataFromApi subscribed by pipeline pipe. The key keeps page and
\* searchText apart from the caller's parameters, whose keys differ from both
NgSelectHelper_loadDataFromApi(h, pipe, page, term) ==
  LET key == [page |-> page, searchText |-> term,
              queryParams |-> h.queryParams, body |-> h.body]
      h1 == [h EXCEPT !.fetches = @ + 1]
  IN  IF h.useCache /\ key \in DOMAIN h.cache
        THEN subscriberNext(h1, pipe, <<h.cache[key]>>)
        ELSE [h1 EXCEPT !.isLoading = TRUE,
                        !.httpCalls = @ + 1,
                        !.requests = @ \cup {[pipe |-> pipe, page |-> page, key |-> key,
                                              superseded |-> FALSE]}]

\* #loadMoreDataSubject.next() through the switchMap of init()
loadMoreDataSubjectNext(h) ==
  IF ~h.initDone \/ h.destroyed THEN h
  ELSE LET h1 == switchMapUnsubscribe(h, "loadMore")
           h2 == runLimitReachedCheck(h1)
       IN  IF h1.isLoading THEN subscriberNext(h1, "loadMore", <<>>)
           ELSE IF h2.limitReached THEN subscriberNext(h2, "loadMore", <<>>)
           ELSE NgSelectHelper_loadDataFromApi(h2, "loadMore", h2.page, h2.searchText)

\* debounceTime hands term to the switchMap of the inputSubject pipeline
inputSwitchMap(h, term) ==
  LET h1 == switchMapUnsubscribe(h, "input")
      h2 == [resetAll(h1, defaultResetOpts) EXCEPT !.searchText = term]
  IN  NgSelectHelper_loadDataFromApi(h2, "input", h2.page, term)

inputSubjectNext(h, term) ==
  IF ~h.initDone \/ h.destroyed THEN h ELSE [h EXCEPT !.debounced = <<term>>]

\* the factor init() multiplies #debounceTimeInSec by
debounceFactor == 500

setDebounceTimeInSecond(h, debounceTimeInSecond) ==
  [h EXCEPT !.debounceTimeInSec =
              IF debounceTimeInSecond > 0 THEN debounceTimeInSecond ELSE OneSecond]

init(h) ==
  IF h.initDone THEN h
  ELSE LET h1 == [h EXCEPT !.initDone = TRUE,
                           !.debounceDueTimeMs =
                             (h.debounceTimeInSec * debounceFactor) \div OneSecond]
       IN  IF h1.searchText # "" THEN inputSubjectNext(h1, h1.searchText) ELSE h1

NgSelectHelper_onOpen(h) == loadMoreDataSubjectNext(h)

NgSelectHelper_onScrollToEnd(h) ==
  IF h.isLoading THEN h
  ELSE loadMoreDataSubjectNext(runProbablePageCounterUpdate(h))

NgSelectHelper_onClose(h) ==
  LET h1 == resetSearchText(h)
  IN  IF h1.runningApiReq # Null
        THEN [h1 EXCEPT !.requests = {}, !.runningApiReq = Null]
        ELSE h1

NgSelectHelper_onClear(h) == resetAll(h, defaultResetOpts)

onBlur(h) == resetAll(h, defaultResetOpts)

NgSelectHelper_patchQueryParams(h, value) ==
  [resetAll(h, defaultResetOpts) EXCEPT !.queryParams = Spread(@, value)]

NgSelectHelper_removeQueryParam(h, key) ==
  [resetAll(h, defaultResetOpts) EXCEPT !.queryParams = ObjDelete(@, key)]

setQueryParams(h, newQueryParams) ==
  [resetAll(h, defaultResetOpts) EXCEPT !.queryParams = newQueryParams]

patchBody(h, value) ==
  IF h.usePostRequest
    THEN [resetAll(h, defaultResetOpts) EXCEPT !.body = Spread(@, value)]
    ELSE h

NgSelectHelper_setBody(h, newBody) ==
  IF h.usePostRequest
    THEN [resetAll(h, defaultResetOpts) EXCEPT !.body = newBody]
    ELSE h

NgSelectHelper_clearCache(h) == [h EXCEPT !.cache = cacheClear(@)]

\* the DestroyRef callback registered by the constructor: completing
\* inputSubject makes debounceTime emit the value it holds
NgSelectHelper_onDestroy(h) ==
  LET h1 == IF h.debounced # <<>>
              THEN inputSwitchMap([h EXCEPT !.debounced = <<>>], h.debounced[1])
              ELSE h
      h2 == [h1 EXCEPT !.destroyed = TRUE, !.cache = cacheClear(@),
                       !.ajaxErrorSubscribers = 0]
  IN  IF h2.runningApiReq # Null
        THEN [h2 EXCEPT !.requests = {}, !.runningApiReq = Null]
        ELSE h2

\* call r completes with a body that passes the schema
requestSucceeds(h, r) ==
  LET val == NgSelectPagedDataResponse(PageItems(r.page, h.limit), dataSetSize)
      h1 == [h EXCEPT !.requests = @ \ {r},
                      !.cache = IF h.useCache THEN cacheSet(@, r.key, val) ELSE @]
  IN  [subscriberNext(h1, r.pipe, <<val>>) EXCEPT !.isLoading = FALSE]

\* #ajaxErrorSubject.next(error): every subscriber is called, unless the
\* subject has been completed
ajaxErrorSubjectNext(h) ==
  IF h.destroyed THEN h
  ELSE [h EXCEPT !.onAjaxErrorCalls = @ + h.ajaxErrorSubscribers]

\* call r fails, or its body does not pass the schema
requestFails(h, r) ==
  LET h1 == ajaxErrorSubjectNext([h EXCEPT !.requests = @ \ {r}])
  IN  [subscriberNext(h1, r.pipe, <<>>) EXCEPT !.isLoading = FALSE]

\* --------------------------------- offsetPaginatedPrimeNgTableState
\* event.rows || 15
defaultRows == 15

\* the lazy-load events of the table: [first, rows], rows 0 when it is unset
TableLazyLoadEvents ==
  { [first |-> f, rows |-> r] : f \in {0, DataLimit, 2 * DataLimit}, r \in {0, DataLimit} }

\* the state after construction with the predicate signal at value predicate:
\* the effect has run once, which aborts nothing. inflight holds the subscribed
\* call, [page, limit]; superseded: a new notification has found a call in
\* flight
offsetPaginatedPrimeNgTableState(predicate) ==
  [ isLoading |-> FALSE,
    currentPage |-> 1,
    currentLimit |-> defaultRows,
    totalRecords |-> 0,
    loadedData |-> defaultData,
    predicate |-> predicate,
    effectPending |-> FALSE,
    inflight |-> {},
    destroyed |-> FALSE,
    httpCalls |-> 0,
    superseded |-> FALSE ]

\* the inner observable ends without a value: unsubscribed by switchMap or
\* completed by takeUntil; finalize runs
Table_unsubscribeInnerKeeps(t) == t

Table_unsubscribeInner(t) ==
  IF t.inflight = {} THEN t ELSE [t EXCEPT !.inflight = {}, !.isLoading = FALSE]

Table_handleApiResponse(t, newData) ==
  [t EXCEPT !.loadedData = [payload |-> newData.payload, totalCount |-> newData.totalCount],
            !.totalRecords = newData.totalCount]

\* subscribing to what loadDataFromApi returns: the deferred call is made
\* with the parameters of that moment
Table_loadDataFromApi(t) ==
  [t EXCEPT !.isLoading = TRUE,
            !.httpCalls = @ + 1,
            !.inflight = {[page |-> t.currentPage, limit |-> t.currentLimit]}]

\* apiCallNotification.next() through switchMap, filter and the subscriber
Table_notifyApiCall(t) ==
  IF t.destroyed THEN t
  ELSE LET t1 == Table_unsubscribeInner(t)
           t2 == [t1 EXCEPT !.superseded = @ \/ (t.inflight # {})]
       IN  IF t2.isLoading THEN t2
           ELSE IF ~t2.predicate THEN Table_handleApiResponse(t2, defaultData)
           ELSE Table_loadDataFromApi(t2)

Table_onLazyLoad(t, event) ==
  LET offset == event.first
      limit == IF event.rows = 0 THEN defaultRows ELSE event.rows
      page == (offset \div limit) + 1
  IN  Table_notifyApiCall([t EXCEPT !.currentPage = page, !.currentLimit = limit])

\* the caller writes the predicate signal; the effect that reads it is
\* scheduled and runs later
Table_setPredicate(t, value) ==
  IF value = t.predicate THEN t
  ELSE [t EXCEPT !.predicate = value, !.effectPending = ~t.destroyed]

\* the effect runs: apiCallAbortNotifier.next() if the predicate is false
Table_effect(t) ==
  LET t1 == [t EXCEPT !.effectPending = FALSE]
  IN  IF ~t1.predicate THEN Table_unsubscribeInner(t1) ELSE t1

\* the DestroyRef fires: the notifier completes, the running call is aborted,
\* the effect is destroyed
Table_onDestroy(t) ==
  [Table_unsubscribeInner(t) EXCEPT !.destroyed = TRUE, !.effectPending = FALSE]

\* what the server sends for a page of limit items
Table_response(r) == [payload |-> PageItems(r.page, r.limit), totalCount |-> dataSetSize]

\* call r completes with a valid body
Table_requestSucceeds(t, r) ==
  [Table_handleApiResponse([t EXCEPT !.inflight = {}], Table_response(r))
     EXCEPT !.isLoading = FALSE]

\* call r fails or its body fails isValidData: catchError maps it to null,
\* which the filter drops
Table_requestFails(t, r) == [t EXCEPT !.inflight = {}, !.isLoading = FALSE]

\* ------ PrimengPagedDataTableStateHelper, PrimeNgDynamicTableStateHelper
\* the state after construction; kind is "paged" or "dynamic". pending holds
\* the fetchData calls that await their response, [id, page, limit];
\* lastPromise is how the promise of the latest call that has settled ended:
\* "none", "fulfilled" or "rejected"
TableStateHelper(kind) ==
  [ kind |-> kind,
    data |-> <<>>,
    isLoading |-> FALSE,
    totalRecords |-> 0,
    limit |-> defaultRows,
    page |-> 1,
    pending |-> {},
    calls |-> 0,
    lastPromise |-> "none" ]

\* fetchData up to its await: the request is sent with the dto built by the
\* caller
TableStateHelper_fetchData(th) ==
  [th EXCEPT !.isLoading = TRUE,
             !.calls = @ + 1,
             !.pending = @ \cup {[id |-> th.calls + 1, page |-> th.page, limit |-> th.limit]}]

\* onLazyLoad; that of PrimeNgDynamicTableStateHelper returns when a fetch is
\* loading, and so do its clearTableData and refresh
TableStateHelper_onLazyLoad(th, event) ==
  LET limit == IF event.rows = 0 THEN defaultRows ELSE event.rows
      page == (event.first \div limit) + 1
  IN  IF th.kind = "dynamic" /\ th.isLoading
        THEN [th EXCEPT !.lastPromise = "fulfilled"]
        ELSE TableStateHelper_fetchData([th EXCEPT !.limit = limit, !.page = page])

TableStateHelper_clearTableData(th) ==
  IF th.kind = "dynamic" /\ th.isLoading
    THEN [th EXCEPT !.lastPromise = "fulfilled"]
    ELSE TableStateHelper_fetchData([th EXCEPT !.data = <<>>, !.totalRecords = 0,
                                               !.page = 1])

TableStateHelper_refresh(th) ==
  IF th.kind = "dynamic" /\ th.isLoading
    THEN [th EXCEPT !.lastPromise = "fulfilled"]
    ELSE TableStateHelper_fetchData(th)

\* the response to call c
TableStateHelper_response(c) ==
  [data |-> PageItems(c.page, c.limit), totalRecords |-> dataSetSize]

\* the await of call c returns a body that the schema accepts
TableStateHelper_fetchSucceeds(th, c) ==
  [th EXCEPT !.pending = @ \ {c},
             !.data = TableStateHelper_response(c).data,
             !.totalRecords = TableStateHelper_response(c).totalRecords,
             !.isLoading = FALSE,
             !.lastPromise = "fulfilled"]

\* the await of call c throws, or the schema rejects the body: the catch
\* block logs the error and returns
TableStateHelper_fetchFails(th, c) ==
  [th EXCEPT !.pending = @ \ {c},
             !.data = <<>>,
             !.totalRecords = 0,
             !.isLoading = FALSE,
             !.lastPromise = "fulfilled"]

\* ------------------------------------------------- MemoizedDataStorage
StorageUrls == {"/api/a", "/api/b"}
StorageParams == { <<>>, << <<"x", "1">> >> }

\* the state after construction. singleData is <<>> for null or holds the
\* body, which names the request it answers; pending holds the loadSingleData
\* calls that await their response; resolved holds the url and parameters of
\* the latest loadSingleData call to settle if its promise was fulfilled and
\* the data have not been cleared since, and is <<>> otherwise
MemoizedDataStorage ==
  [ singleData |-> <<>>,
    isLoading |-> FALSE,
    isMemoizationDisabledOnNextRead |-> FALSE,
    pending |-> {},
    calls |-> 0,
    resolved |-> <<>> ]

\* what the server sends for url and queryParams
Storage_response(url, queryParams) == [url |-> url, params |-> queryParams]

disableMemoizationOnNextRead(st) ==
  [st EXCEPT !.isMemoizationDisabledOnNextRead = TRUE, !.singleData = <<>>,
             !.resolved = <<>>]

\* loadSingleData up to its await, or to its early return
loadSingleData(st, url, queryParams) ==
  IF ~st.isMemoizationDisabledOnNextRead /\ st.singleData # <<>>
    THEN [st EXCEPT !.resolved = <<[url |-> url, params |-> queryParams]>>]
    ELSE [st EXCEPT !.isLoading = TRUE,
                    !.calls = @ + 1,
                    !.pending = @ \cup {[id |-> st.calls + 1, url |-> url,
                                         params |-> queryParams]}]

Storage_clear(st) ==
  [st EXCEPT !.singleData = <<>>, !.isMemoizationDisabledOnNextRead = FALSE,
             !.resolved = <<>>]

\* the await of call c returns
loadSingleDataSucceeds(st, c) ==
  [st EXCEPT !.pending = @ \ {c},
             !.singleData = <<Storage_response(c.url, c.params)>>,
             !.isLoading = FALSE,
             !.isMemoizationDisabledOnNextRead = FALSE,
             !.resolved = <<[url |-> c.url, params |-> c.params]>>]

\* the await of call c throws: the error is rethrown to the caller
loadSingleDataFails(st, c) ==
  [st EXCEPT !.pending = @ \ {c},
             !.singleData = <<>>,
             !.isLoading = FALSE,
             !.isMemoizationDisabledOnNextRead = FALSE,
             !.resolved = <<>>]

\* ------------------------------ the signals behind finalQueryParams
\* currentPage, searchText and queryParamsFromUser, the signals that the
\* computed finalQueryParams reads, as constructed with options o. memo is
\* <<>> while the computed has no current value (it was never read, or a
\* signal it read has notified a change since) and holds the memoized value
\* otherwise. removeQueryParam hands the signal a copy without the key in one
\* copy of the source and deletes the key from the signal's own object in the
\* other: deletesInPlace tells which
QueryParamSignals(deletesInPlace) ==
  [ mergedOptions |-> Options(<<FALSE, "GET", FALSE, FALSE>>),
    deletesInPlace |-> deletesInPlace,
    currentPage |-> 1,
    searchText |-> Null,
    queryParamsFromUser |-> <<>>,
    memo |-> <<>> ]

\* ----------------------------------------------------------------- Init
\* the state of offsetPaginatedNgSelectState after construction, against a
\* server that holds size items
InitState(scenarios, size) ==
  /\ \E sc \in scenarios : mergedOptions = sc[1] /\ driftingServer = sc[2]
  /\ dataSetSize = size
  /\ currentPage = 1
  /\ isCurrentPageSuccessful = FALSE
  /\ isAllDataLoaded = FALSE
  /\ isLoading = FALSE
  /\ isSelectPanelOpen = FALSE
  /\ loadedData = defaultData
  /\ cache = EmptyMap
  /\ searchText = Null
  /\ postRequestBody = mergedOptions.postRequestBody
  /\ queryParamsFromUser = mergedOptions.queryParams
  /\ inflight = {}
  /\ destroyed = FALSE
  /\ aborted = FALSE
  /\ sinceSweep = 0
  /\ httpCalls = 0
  /\ fetches = 0
  /\ mergedSeq = <<>>
  /\ served = EmptyMap
  /\ lastFetched = <<>>
  /\ serverHonest = TRUE
  /\ subscribed = TRUE
  /\ typeaheadValue = NoValue
  /\ searchTermFromSearchEvent = Null
  /\ debouncePending = FALSE
  /\ burst = <<>>
  /\ onErrorCalls = 0
  /\ lastError = <<>>

InitServing(scenarios, size) ==
  /\ InitState(scenarios, size)
  /\ helper = NgSelectHelper(FALSE, FALSE, "")
  /\ tableState = offsetPaginatedPrimeNgTableState(TRUE)
  /\ tableHelper = TableStateHelper("paged")
  /\ storage = MemoizedDataStorage
  /\ signals = QueryParamSignals(FALSE)

InitOf(scenarios) == InitServing(scenarios, DataSize)

Init == InitOf(Scenarios)

\* ---------------------------------------------------------- public API
onOpenOn(w) ==
  LET w1 == [w EXCEPT !.isSelectPanelOpen = TRUE]
  IN  IF ~w.mergedOptions.searchOnlyMode THEN notifyApiCall(w1) ELSE w1

onOpen == Do(onOpenOn(W))

onClose == Do([W EXCEPT !.isSelectPanelOpen = FALSE])

onClear == Do(reset(W, defaultResetOpts))

Reset == \E options \in ResetOptions : Do(reset(W, options))

clearCache == Do(clearCacheOnRequest(W))

\* onScrollToEnd without the isLoading test of its early return
onScrollToEndWhileLoading(w) ==
  IF w.isAllDataLoaded \/ ~w.isSelectPanelOpen
    THEN w
    ELSE notifyApiCall([w EXCEPT !.currentPage =
                          IF w.isCurrentPageSuccessful THEN @ + 1 ELSE @])

\* onScrollToEnd without the isAllDataLoaded test of its early return
onScrollToEndWhenAllLoaded(w) ==
  IF w.isLoading \/ ~w.isSelectPanelOpen
    THEN w
    ELSE notifyApiCall([w EXCEPT !.currentPage =
                          IF w.isCurrentPageSuccessful THEN @ + 1 ELSE @])

\* an onScrollToEnd that advances the page whether or not the current page
\* has been fetched successfully
onScrollToEndAlwaysAdvances(w) ==
  IF w.isAllDataLoaded \/ w.isLoading \/ ~w.isSelectPanelOpen
    THEN w
    ELSE notifyApiCall([w EXCEPT !.currentPage = @ + 1])

onScrollToEndOn(w) ==
  IF w.isAllDataLoaded \/ w.isLoading \/ ~w.isSelectPanelOpen
    THEN w
    ELSE notifyApiCall([w EXCEPT !.currentPage =
                          IF w.isCurrentPageSuccessful THEN @ + 1 ELSE @])

onScrollToEnd == Do(onScrollToEndOn(W))

\* a setBody that stores the body without resetting
setBodyWithoutReset(w, value) ==
  IF w.mergedOptions.requestMethod = "POST"
    THEN [w EXCEPT !.postRequestBody = value]
    ELSE w

setBodyOn(w, value) ==
  IF w.mergedOptions.requestMethod = "POST"
    THEN [reset(w, defaultResetOpts) EXCEPT !.postRequestBody = value]
    ELSE w

setBody == \E value \in Bodies : Do(setBodyOn(W, value))

clearBody ==
  IF mergedOptions.requestMethod = "POST"
    THEN Do([reset(W, defaultResetOpts) EXCEPT !.postRequestBody = Null])
    ELSE UNCHANGED vars

\* objects that name reserved keys, in the configured and in another case
ReservedPatches ==
  { << <<"page", "9">> >>,
    << <<"limit", "9">>, <<"a", "1">> >>,
    << <<"SearchText", "x">> >> }

\* the objects a caller passes to patchQueryParams
PatchValues(o) ==
  { << <<k, v>> >> : k \in ParamKeysFor(o), v \in ParamVals } \cup {<<>>}
    \cup ReservedPatches

\* a filter that compares the keys as they are written
withoutBlackListedCaseSensitive(o, value) ==
  SelectSeq(value, LAMBDA p :
    p[1] \notin {o.searchQueryParamKey, o.pageQueryParamKey, o.limitQueryParamKey})

\* the forEach of patchQueryParams and of the constructor: the reserved keys,
\* compared in lower case, are deleted
withoutBlackListed(o, value) ==
  SelectSeq(value, LAMBDA p : toLowerCase(p[1]) \notin blackListedQueryKeys(o))

\* the constructor: reserved keys are deleted from options.queryParams
mergedOptionsOf(options) ==
  [options EXCEPT !.queryParams = withoutBlackListed(options, @)]

patchQueryParamsOn(w, value) ==
  LET kept == withoutBlackListed(w.mergedOptions, value)
  IN  IF Len(kept) > 0
        THEN [reset(w, defaultResetOpts) EXCEPT
                !.queryParamsFromUser = Spread(@, kept)]
        ELSE w

patchQueryParams ==
  \E value \in PatchValues(mergedOptions) : Do(patchQueryParamsOn(W, value))

\* removeQueryParam with an update() that returns a new object; what the
\* computed finalQueryParams memoizes when the object is changed in place is
\* followed by the record signals
removeQueryParam ==
  \E key \in ParamKeysFor(mergedOptions) :
    Do([reset(W, defaultResetOpts) EXCEPT !.queryParamsFromUser = ObjDelete(@, key)])

removeAllQueryParams ==
  Do([reset(W, defaultResetOpts) EXCEPT !.queryParamsFromUser = <<>>])

\* ------------------------------------------------- internal subscriptions
\* bookkeeping: the items still accumulated were loaded before this moment
markOld(w) ==
  [w EXCEPT !.loadedData.payload = [i \in DOMAIN @ |-> [@[i] EXCEPT !.old = TRUE]]]

\* the subscriber of the debounced typeahead pipeline
typeaheadSubscriber(w, finalValue) ==
  LET w1 == markOld(reset(w, defaultResetOpts))
  IN  IF w.mergedOptions.searchOnlyMode /\ finalValue = ""
        THEN w1
        ELSE notifyApiCall([w1 EXCEPT !.searchText = finalValue])

\* the subscriber runs for a settled term
SearchSettled ==
  \E finalValue \in TermsFor(mergedOptions) :
    /\ ~destroyed
    /\ Do(typeaheadSubscriber(W, finalValue))

\* the switchMap of the typeahead pipeline: <<value>>, or <<>> for null
reconcile(typeaheadVal, searchEventValue) ==
  IF typeaheadVal = searchEventValue THEN <<trim(typeaheadVal)>>
  ELSE IF searchEventValue = "" THEN <<"">>
  ELSE <<>>

\* debounceTime emits the latest [typeaheadValue, searchEventValue] it holds
debounceEmit(w) ==
  LET v == reconcile(w.typeaheadValue, w.searchTermFromSearchEvent)
      w1 == [w EXCEPT !.debouncePending = FALSE]
  IN  IF v = <<>> THEN w1 ELSE typeaheadSubscriber(w1, v[1])

\* bookkeeping: one more search input in the current burst
noteInput(b, term, viaOnSearch) ==
  << [ count |-> IF b = <<>> THEN 1 ELSE Min(b[1].count + 1, MaxBurst),
       last |-> term,
       onSearch |-> viaOnSearch \/ (b # <<>> /\ b[1].onSearch) ] >>

\* typeaheadSubject.next(term): combineLatestWith emits, the signal's
\* observable having emitted its initial value
typeaheadNext ==
  \E term \in SearchInputs :
    /\ ~destroyed
    /\ Do([W EXCEPT !.typeaheadValue = term,
                    !.debouncePending = TRUE,
                    !.burst = noteInput(@, term, FALSE)])

\* the events a caller passes to onSearch
SearchEvents == { << <<"term", t>> >> : t \in SearchInputs } \cup { <<>> }

\* onSearch(event): the signal is written; toObservable emits when the value
\* changed, and combineLatestWith once typeAhead$ has emitted
onSearch ==
  \E event \in SearchEvents :
    IF "term" \in ObjKeys(event)
      THEN LET term == ObjGet(event, "term")
               emits == /\ term # searchTermFromSearchEvent
                        /\ typeaheadValue # NoValue
                        /\ ~destroyed
           IN  Do([W EXCEPT !.searchTermFromSearchEvent = term,
                           !.debouncePending = @ \/ emits,
                           !.burst = IF destroyed THEN @ ELSE noteInput(@, term, TRUE)])
      ELSE UNCHANGED vars

\* debounceTimeMs pass without a search input
DebounceElapsed ==
  /\ burst # <<>>
  /\ ~destroyed
  /\ Do([(IF debouncePending THEN debounceEmit(W) ELSE W) EXCEPT !.burst = <<>>])

\* the interval(cacheTtlSec * 1000) timer exists and is running
TimerRunning ==
  mergedOptions.useCache /\ ~mergedOptions.disableCacheExpiration /\ ~destroyed

aged(w) ==
  [w EXCEPT !.lastFetched = [i \in DOMAIN @ |->
                               [@[i] EXCEPT !.age = Min(@ + 1, CacheTtlTicks)]]]

\* one clock tick passes without the interval timer firing
Tick ==
  /\ TimerRunning
  /\ sinceSweep + 1 < CacheTtlTicks
  /\ Do([aged(W) EXCEPT !.sinceSweep = @ + 1])

\* the clock tick on which the interval timer fires: the TTL sweep
CacheTtlSweep ==
  /\ TimerRunning
  /\ sinceSweep + 1 >= CacheTtlTicks
  /\ Do(clearCacheOf([aged(W) EXCEPT !.sinceSweep = 0]))

\* destroyRef.onDestroy, and takeUntilDestroyed on the pipelines
\* the callbacks run in the order they were registered: onDestroy, the
\* pipelines' takeUntilDestroyed, then toObservable's, which completes the
\* signal's observable and so makes debounceTime emit what it holds
\* a teardown that neither emits the abort notifier nor unsubscribes the
\* pipelines
onDestroyWithoutAbort(w) ==
  [clearCacheOnRequest(w) EXCEPT !.destroyed = TRUE]

onDestroy(w) ==
  LET w1 == [clearCacheOnRequest(supersede(unsubscribeInner(abortNotifierNext(w))))
               EXCEPT !.destroyed = TRUE, !.subscribed = FALSE, !.burst = <<>>]
  IN  IF w1.debouncePending THEN debounceEmit(w1) ELSE w1

\* the DestroyRef fires, once
Destroy == ~destroyed /\ Do(onDestroy(W))

\* ------------------------------------------------------------ transport
\* the server answers an outstanding call with a valid body
\* call r of w completes with a valid body that reports tc items: the tap
\* caches the container, the subscriber merges it, finalize ends loading
httpSuccessOn(w, r, tc) ==
  LET o == w.mergedOptions
      rawData == ResponseBody(r.page, o.dataLimitPerRequest, tc)
      data == dataInContainer(o, rawData)
      w1 == [w EXCEPT !.serverHonest = @ /\ (tc = dataSetSize),
                      !.cache = IF o.useCache THEN cacheSet(@, r.strKey, data) ELSE @,
                      !.served = IF o.useCache THEN cacheSet(@, r.key, data) ELSE @,
                      !.lastFetched = IF o.useCache THEN <<[key |-> r.key, age |-> 0, cleared |-> FALSE]>> ELSE @]
      w2 == handleApiResponse(w1, data, [page |-> r.page, stale |-> r.stale])
  IN  finalize([w2 EXCEPT !.inflight = @ \ {r}])

HttpSuccess ==
  \E r \in inflight, tc \in ReportedTotals(driftingServer) :
    LET o == mergedOptions
        rawData == ResponseBody(r.page, o.dataLimitPerRequest, tc)
    IN  /\ isValidData(o.dataArrayKey, o.totalDataCountKey, rawData)
        /\ Do(httpSuccessOn(W, r, tc))

\* the call fails, or its body fails isValidData: catchError maps it to null
HttpFailure ==
  \E r \in inflight :
    \E rawData \in FailedResponses(r.page, mergedOptions.dataLimitPerRequest) :
      LET o == mergedOptions
          error == IF rawData = TransportError THEN "HttpErrorResponse"
                   ELSE "Error: The response body must be an object"
      IN  /\ rawData = TransportError
               \/ ~isValidData(o.dataArrayKey, o.totalDataCountKey, rawData)
          /\ Do(finalize(catchError([W EXCEPT !.inflight = @ \ {r}], error)))

Next ==
  \/ onOpen
  \/ onClose
  \/ onClear
  \/ Reset
  \/ clearCache
  \/ onScrollToEnd
  \/ setBody
  \/ clearBody
  \/ patchQueryParams
  \/ removeQueryParam
  \/ removeAllQueryParams
  \/ SearchSettled
  \/ Tick
  \/ CacheTtlSweep
  \/ Destroy
  \/ HttpSuccess
  \/ HttpFailure

Spec == Init /\ [][Next]_vars

\* an instance with an onError callback
InitErrors == InitOf(ErrorScenarios)

NextErrors ==
  \/ onOpen
  \/ onClose
  \/ onClear
  \/ onScrollToEnd
  \/ SearchSettled
  \/ Destroy
  \/ HttpSuccess
  \/ HttpFailure

SpecErrors == InitErrors /\ [][NextErrors]_vars

\* an instance driven through its two search inputs and the debounce timer
InitSearch == InitOf(SearchScenarios)

NextSearch ==
  \/ onOpen
  \/ onClose
  \/ typeaheadNext
  \/ onSearch
  \/ DebounceElapsed
  \/ Destroy
  \/ HttpSuccess
  \/ HttpFailure

SpecSearch == InitSearch /\ [][NextSearch]_vars

\* the queryParams a caller constructs an instance with
ConstructionParams == { <<>>, << <<"Page", "9">>, <<"b", "1">>, <<"searchText", "x">> >> }

\* instances without caching, one per request method and construction
\* parameters
ConfigScenarios ==
  { <<mergedOptionsOf([Options(<<FALSE, m, FALSE, FALSE>>) EXCEPT !.queryParams = q]),
      FALSE>> : m \in {"GET", "POST"}, q \in ConstructionParams }

\* a GET and a POST instance, reconfigured by the caller while they fetch
InitConfig == InitOf(ConfigScenarios)

NextConfig ==
  \/ onOpen
  \/ onClose
  \/ onClear
  \/ Reset
  \/ onScrollToEnd
  \/ setBody
  \/ clearBody
  \/ patchQueryParams
  \/ removeQueryParam
  \/ removeAllQueryParams
  \/ SearchSettled
  \/ Destroy
  \/ HttpSuccess
  \/ HttpFailure

SpecConfig == InitConfig /\ [][NextConfig]_vars

TypeOK ==
  /\ currentPage \in 1..MaxPage
  /\ isLoading = (inflight # {})
  /\ httpCalls <= fetches
  /\ DOMAIN cache = {JSONstringify(k) : k \in DOMAIN served}

\* ------------------------------------------------------------ properties
\* the key of the request the current state would fetch
KeyNow == CacheKey(W)

\* this step invoked loadDataFromApi
FetchStep == fetches' = fetches + 1

Payload == loadedData.payload

Ids(items) == [i \in DOMAIN items |-> items[i].id]

Last(q) == q[Len(q)]

\* the parameters of a key as a set of key/value pairs
SameLogicalKey(k1, k2) ==
  /\ k1.url = k2.url
  /\ k1.body = k2.body
  /\ {k1.queryParams[i] : i \in DOMAIN k1.queryParams}
       = {k2.queryParams[i] : i \in DOMAIN k2.queryParams}

\* C1: the response of a fetch issued before a reset (settled search term,
\* patchQueryParams, setBody, removeQueryParam, onClear, reset() or teardown)
\* is never handed to handleApiResponse
C1_NoStaleMerge == \A i \in DOMAIN mergedSeq : ~mergedSeq[i].stale

\* a reset cancelled a running call and a later fetch has been merged
C1_Witness == aborted /\ mergedSeq # <<>> /\ ~destroyed

\* C2: at most one HTTP call is outstanding at any time
C2_AtMostOneOutstanding == Cardinality(inflight) <= 1

\* a call is outstanding that was issued after an earlier call
C2_Witness == Cardinality(inflight) = 1 /\ httpCalls >= 2

\* C3: page p+1 is requested, and merged, only after page p has been merged
\* since the last reset
C3_NoPageSkipped ==
  /\ \A r \in inflight :
       r.page > 1 => \E i \in DOMAIN mergedSeq : mergedSeq[i].page = r.page - 1
  /\ \A i \in DOMAIN mergedSeq :
       mergedSeq[i].page > 1 => \E j \in 1..(i - 1) : mergedSeq[j].page = mergedSeq[i].page - 1

\* C4: between two resets the merged pages are strictly increasing, so no
\* page is merged twice
C4_PagesMergedOnceInOrder ==
  \A i, j \in DOMAIN mergedSeq : i < j => mergedSeq[i].page < mergedSeq[j].page

\* C5: with a server that always reports the true size of its fixed data set,
\* the accumulated items never outnumber the reported totalCount
C5_CountWithinTotal ==
  (serverHonest /\ mergedSeq # <<>>) => Len(Payload) <= Last(mergedSeq).totalCount

\* C6: after a merge allLoaded is true iff the item count has reached the
\* latest reported totalCount; after a reset it is false
C6_AllLoadedIffCountReached ==
  IF mergedSeq = <<>> THEN ~isAllDataLoaded
  ELSE isAllDataLoaded <=> (Len(Payload) >= Last(mergedSeq).totalCount)

\* C7 as stated: a fetch for the key of a successful fetch made fewer than
\* cacheTtlSec seconds ago (the cache not having been cleared on request)
\* performs no transport call
C7_HitWithinTtlOfFetch ==
  [][ ( /\ FetchStep
        /\ lastFetched # <<>>
        /\ ~lastFetched[1].cleared
        /\ lastFetched[1].age < CacheTtlTicks
        /\ KeyNow' = lastFetched[1].key )
      => httpCalls' = httpCalls ]_vars

\* C7 amended: a fetch for the key of a successful fetch made since the cache
\* was last cleared (by the TTL sweep or on request) performs no transport
\* call and merges the cached page
C7_HitUntilCleared ==
  [][ (FetchStep /\ KeyNow' \in DOMAIN served)
      => /\ httpCalls' = httpCalls
         /\ mergedSeq' # <<>>
         /\ Last(mergedSeq').page = currentPage'
         /\ isCurrentPageSuccessful'
         /\ LET d == served[KeyNow']
                n == Len(Payload')
            IN  /\ n >= Len(d.payload)
                /\ SubSeq(Ids(Payload'), n - Len(d.payload) + 1, n) = d.payload
                /\ Last(mergedSeq').totalCount = d.totalCount ]_vars

\* a fetch has been answered from the cache and merged
C7_Witness == fetches > httpCalls /\ Payload # <<>>

\* C8: a fetch whose key has the same url, body and set of query parameters
\* as a cached response is a cache hit
C8_OrderIndependentKey ==
  [][ (FetchStep /\ \E k \in DOMAIN served : SameLogicalKey(k, KeyNow'))
      => httpCalls' = httpCalls ]_vars

\* C9: a fetch for a key whose cached response has been cleared away performs
\* exactly one transport call
C9_RefetchAfterClear ==
  [][ ( /\ FetchStep
        /\ lastFetched # <<>>
        /\ KeyNow' = lastFetched[1].key
        /\ KeyNow' \notin DOMAIN served )
      => /\ httpCalls' = httpCalls + 1
         /\ \E r \in inflight' : r.key = KeyNow' ]_vars

\* a key that had been fetched and cached is being fetched over HTTP again
C9_Witness ==
  /\ lastFetched # <<>>
  /\ \E r \in inflight : r.key = lastFetched[1].key

\* C10: no item accumulated before a settled search term is still there
\* afterwards, and the first merge after it is page 1
C10_SettleClears ==
  /\ \A i \in DOMAIN Payload : ~Payload[i].old
  /\ mergedSeq # <<>> => mergedSeq[1].page = 1

\* a term settled after an unfiltered page had been merged, and a page of
\* the new term has been merged
C10_Witness ==
  /\ searchText \in SearchTerms
  /\ Payload # <<>>
  /\ \E k \in DOMAIN served :
       "searchText" \notin ObjKeys(k.queryParams)

\* the query parameters of a request carry the pair <<k, v>>
Carries(r, k, v) == \E i \in DOMAIN r.key.queryParams : r.key.queryParams[i] = <<k, v>>

\* this step is the end of a burst of search inputs: debounceTimeMs have
\* passed since the last of them, and the instance is alive
QuietStep == burst # <<>> /\ burst' = <<>> /\ ~destroyed'

\* C11: once onSearch(term) has been called with the panel open and the input
\* has gone quiet, the state has been reset and a fetch of page 1 carrying the
\* (trimmed) term has been issued, unless searchOnlyMode is on and the term is
\* empty
C11_OnSearchFetches ==
  [][ ( /\ QuietStep
        /\ burst[1].onSearch
        /\ isSelectPanelOpen
        /\ ~(mergedOptions.searchOnlyMode /\ searchTermFromSearchEvent = "") )
      => /\ FetchStep
         /\ currentPage' = 1
         /\ mergedSeq' = <<>>
         /\ searchText' = trim(searchTermFromSearchEvent)
         /\ \E r \in inflight' :
              r.page = 1 /\ Carries(r, "searchText", trim(searchTermFromSearchEvent)) ]_vars

\* C12: a burst of several search inputs, each made before debounceTimeMs
\* have passed since the previous one, issues no fetch while it lasts and, with
\* the panel open, exactly one fetch when the input goes quiet, carrying the
\* (trimmed) last term of the burst
C12_BurstSettlesOnce ==
  [][ /\ (burst' # <<>> /\ burst' # burst) => fetches' = fetches
      /\ ( /\ QuietStep
           /\ burst[1].count >= 2
           /\ isSelectPanelOpen
           /\ ~(mergedOptions.searchOnlyMode /\ burst[1].last = "") )
         => /\ FetchStep
            /\ searchText' = trim(burst[1].last)
            /\ \E r \in inflight' :
                 r.page = 1 /\ Carries(r, "searchText", trim(burst[1].last)) ]_vars

\* C13: with searchOnlyMode every HTTP call carries a non-empty search term
C13_SearchOnlyNeverUnfiltered ==
  mergedOptions.searchOnlyMode =>
    \A r \in inflight :
      \E i \in DOMAIN r.key.queryParams :
        /\ r.key.queryParams[i][1] = mergedOptions.searchQueryParamKey
        /\ r.key.queryParams[i][2] # ""

\* C14: onOpen() while a fetch is loading makes no HTTP call and leaves the
\* call that is in flight subscribed
C14_OpenWhileLoadingNoOp ==
  [][ (isLoading /\ onOpen) => (httpCalls' = httpCalls /\ inflight' = inflight) ]_vars

\* C15: in every state in which a fetch is loading, onScrollToEnd() changes
\* nothing: no HTTP call, the same page, the same call in flight
C15_ScrollWhileLoadingNoOp ==
  isLoading =>
    LET w == onScrollToEndOn(W)
    IN  /\ w.httpCalls = httpCalls
        /\ w.fetches = fetches
        /\ w.currentPage = currentPage
        /\ w.inflight = inflight
        /\ w = W

\* a fetch started by onScrollToEnd is loading with the panel open
C15_Witness == isLoading /\ isSelectPanelOpen /\ currentPage > 1

\* C16: in every state in which allLoaded is true, onScrollToEnd() makes no
\* HTTP call and changes neither the page nor the accumulated data
C16_ScrollWhenAllLoadedNoOp ==
  isAllDataLoaded =>
    LET w == onScrollToEndOn(W)
    IN  /\ w.httpCalls = httpCalls
        /\ w.fetches = fetches
        /\ w.currentPage = currentPage
        /\ w.loadedData = loadedData

\* everything has been loaded, over more than one page, and the panel is open
C16_Witness ==
  /\ isAllDataLoaded
  /\ isSelectPanelOpen
  /\ ~isLoading
  /\ currentPage > 1
  /\ Len(Payload) = DataSize

\* the latest fetch ended in failure
LastFetchFailed == lastError # <<>> /\ lastError[1].fetch = fetches /\ ~isLoading

\* C17: onScrollToEnd() advances the page only when the current page has been
\* merged, and when the latest fetch failed it changes neither the page nor
\* the number of HTTP calls
C17_ScrollOnlyAfterSuccess ==
  LET w == onScrollToEndOn(W)
  IN  /\ w.currentPage # currentPage =>
           \E i \in DOMAIN mergedSeq : mergedSeq[i].page = currentPage
      /\ LastFetchFailed =>
           (w.currentPage = currentPage /\ w.httpCalls = httpCalls)

\* the errors catchError can be handed
Errors == {"HttpErrorResponse", "Error: The response body must be an object"}

\* C18: when a call fails (transport error or invalid body) onError is invoked
\* exactly once, with the error; nothing is merged and the accumulated data is
\* what it was when the fetch was issued; isLoading is false and no call is
\* left in flight
C18_FailureReportedNotMerged ==
  [][ HttpFailure =>
        \E r \in inflight :
          /\ loadedData' = r.dataBefore
          /\ mergedSeq' = mergedSeq
          /\ ~isLoading'
          /\ inflight' = {}
          /\ onErrorCalls' = onErrorCalls + 1
          /\ lastError' # <<>>
          /\ lastError'[1].fetch = fetches
          /\ lastError'[1].error \in Errors ]_vars

\* a call made after a page had been merged failed on an invalid body, and
\* the merged page is still there
C18_Witness ==
  /\ lastError # <<>>
  /\ lastError[1].error = "Error: The response body must be an object"
  /\ lastError[1].fetch = fetches
  /\ ~isLoading
  /\ Payload # <<>>

\* C19: however a fetch ends (merge, transport or validation failure, a
\* throwing onError, abort by reset, replacement by a newer trigger, teardown)
\* isLoading is false once no call is outstanding
C19_LoadingEnds == inflight = {} => ~isLoading

\* calls have ended by a merge, by a failure whose onError callback threw and
\* by an abort, and nothing is loading
C19_Witness ==
  /\ ~isLoading
  /\ inflight = {}
  /\ mergedOptions.onError = "throws"
  /\ lastError # <<>>
  /\ aborted
  /\ mergedSeq # <<>>

\* the onError callback has been invoked and has thrown
HandlerThrew == mergedOptions.onError = "throws" /\ lastError # <<>>

\* C20: after onError has thrown, the apiCallNotification pipeline is still
\* subscribed (until teardown), a later onOpen() issues a fetch, and a response
\* that arrives is merged
C20_ThrowingOnErrorContained ==
  /\ []( (HandlerThrew /\ ~destroyed) =>
           /\ subscribed
           /\ ~isAllDataLoaded =>
                LET w == onOpenOn(W)
                IN  w.fetches = fetches + 1 /\ w.httpCalls = httpCalls + 1
                      /\ w.inflight # {} )
  /\ [][ (HandlerThrew /\ HttpSuccess) =>
           /\ Len(mergedSeq') = Len(mergedSeq) + 1
           /\ isCurrentPageSuccessful' ]_vars

\* onError threw on an earlier fetch, and the latest fetch, neither aborted
\* nor failed, has been merged
C20_Witness ==
  /\ HandlerThrew
  /\ lastError[1].fetch < fetches
  /\ inflight = {}
  /\ ~aborted
  /\ ~destroyed
  /\ mergedSeq # <<>>

\* C21: onError is invoked only for a call that no reset has superseded: a
\* fetch aborted by a reset never reaches the error callback
C21_AbortedNeverReported ==
  [][ onErrorCalls' # onErrorCalls =>
        /\ \E r \in inflight : ~r.stale
        /\ aborted' = aborted ]_vars

\* the only fetch made so far was aborted by a reset, and onError has not
\* been invoked
C21_Witness ==
  /\ mergedOptions.onError # "none"
  /\ aborted
  /\ ~destroyed
  /\ fetches = 1
  /\ inflight = {}
  /\ onErrorCalls = 0

\* the state reset() leaves: page 1, nothing accumulated, not allLoaded, not
\* loading, and no call left that could be merged
FreshlyReset(w) ==
  /\ w.currentPage = 1
  /\ w.loadedData.payload = <<>>
  /\ ~w.isAllDataLoaded
  /\ ~w.isLoading
  /\ w.inflight = {}

\* every pair of o is a pair of the query parameters a fetch would send
InEffect(w, o) ==
  \A i \in DOMAIN o :
    \E j \in DOMAIN finalQueryParams(w) : finalQueryParams(w)[j] = o[i]

\* C22 as stated: whatever the argument, patchQueryParams and setBody leave
\* the engine freshly reset
C22_AlwaysResets ==
  /\ \A value \in PatchValues(mergedOptions) : FreshlyReset(patchQueryParamsOn(W, value))
  /\ \A value \in Bodies : FreshlyReset(setBodyOn(W, value))

\* C22 amended: patchQueryParams with at least one non-reserved key, and
\* setBody on a POST instance, leave the engine freshly reset with the new
\* parameters or body in effect; patchQueryParams with no non-reserved key,
\* and setBody on a GET instance, change nothing
C22_ResetsWhenAccepted ==
  /\ \A value \in PatchValues(mergedOptions) :
       LET w == patchQueryParamsOn(W, value)
           kept == withoutBlackListed(mergedOptions, value)
       IN  IF kept # <<>>
             THEN FreshlyReset(w) /\ InEffect(w, kept) /\ w.mergedSeq = <<>>
             ELSE w = W
  /\ \A value \in Bodies :
       LET w == setBodyOn(W, value)
       IN  IF mergedOptions.requestMethod = "POST"
             THEN /\ FreshlyReset(w)
                  /\ w.mergedSeq = <<>>
                  /\ w.postRequestBody = value
                  /\ CacheKey(w).body = <<value>>
             ELSE w = W

\* a fetch has been made, and a patched parameter is in effect on a freshly
\* reset engine whose reset aborted a call
C22_Witness ==
  /\ queryParamsFromUser # <<>>
  /\ InEffect(W, queryParamsFromUser)
  /\ FreshlyReset(W)
  /\ aborted
  /\ httpCalls >= 1
  /\ ~destroyed

\* C23: teardown leaves no call in flight, an empty cache and isLoading false,
\* and running it again changes nothing; once torn down, no step makes a fetch
\* or an HTTP call, merges a response or stores one in the cache
C23_TeardownFinal ==
  /\ []( LET d == onDestroy(W)
         IN  /\ d.destroyed
             /\ d.inflight = {}
             /\ ~d.isLoading
             /\ d.cache = EmptyMap
             /\ onDestroy(d) = d )
  /\ [](destroyed => (inflight = {} /\ cache = EmptyMap))
  /\ [][ destroyed =>
           /\ fetches' = fetches
           /\ httpCalls' = httpCalls
           /\ Len(mergedSeq') <= Len(mergedSeq)
           /\ Len(Payload') <= Len(Payload)
           /\ cache' = cache ]_vars

\* the instance was torn down after a response had been cached and a call had
\* been aborted, and the panel has been opened
C23_Witness ==
  /\ destroyed
  /\ aborted
  /\ lastFetched # <<>>
  /\ cache = EmptyMap
  /\ isSelectPanelOpen

\* the keys of o that are reserved when compared in lower case
ReservedIn(o) == { k \in ObjKeys(o) : toLowerCase(k) \in blackListedQueryKeys(mergedOptions) }

\* C24: no reserved key, in any case, is among the caller's extra parameters
\* (the constructed ones and the current ones), and every request in flight
\* carries exactly one page, limit and search parameter: the cursor, the
\* configured limit and the settled term (none when there is no term)
C24_ReservedKeysStripped ==
  /\ ReservedIn(mergedOptions.queryParams) = {}
  /\ ReservedIn(queryParamsFromUser) = {}
  /\ \A r \in inflight :
       LET q == r.key.queryParams
           o == mergedOptions
       IN  /\ \A i, j \in DOMAIN q : toLowerCase(q[i][1]) = toLowerCase(q[j][1]) => i = j
           /\ ObjGet(q, o.pageQueryParamKey) = ToString(currentPage)
           /\ r.page = currentPage
           /\ ObjGet(q, o.limitQueryParamKey) = ToString(o.dataLimitPerRequest)
           /\ IF searchText = Null
                THEN o.searchQueryParamKey \notin ObjKeys(q)
                ELSE ObjGet(q, o.searchQueryParamKey) = searchText

\* an instance constructed with reserved keys among its parameters has a
\* request in flight that carries a settled term and an extra parameter
C24_Witness ==
  /\ mergedOptions.queryParams # <<>>
  /\ searchText \in SearchTerms
  /\ \E r \in inflight :
       /\ Carries(r, "searchText", searchText)
       /\ ObjKeys(r.key.queryParams) \cap {"a", "b"} # {}

PropertyValues ==
  { JsNull, JsString, JsNumber(0), JsArray(<<>>), JsArray(<<1>>), JsObject(<<>>) }

ResponseShapes ==
  { JsNull, JsString, JsNumber(DataSize), JsArray(<<>>), JsArray(<<1, 2>>) }
    \cup { JsObject(<<>>) }
    \cup { JsObject(<< <<"payload", v>> >>) : v \in PropertyValues }
    \cup { JsObject(<< <<"totalCount", v>> >>) : v \in PropertyValues }
    \cup { JsObject(<< <<"payload", v>>, <<"totalCount", c>> >>) :
             v \in PropertyValues, c \in PropertyValues }
    \cup { JsObject(<< <<"totalCount", c>>, <<"payload", v>>, <<"extra", JsNull>> >>) :
             v \in PropertyValues, c \in PropertyValues }

\* an object that contains both keys, the data key with an array and the
\* count key with a number
WellFormed(dataArrayKey, dataCountKey, rawData) ==
  /\ rawData.type = "object"
  /\ \E i \in DOMAIN rawData.value :
       rawData.value[i][1] = dataArrayKey /\ rawData.value[i][2].type = "array"
  /\ \E j \in DOMAIN rawData.value :
       rawData.value[j][1] = dataCountKey /\ rawData.value[j][2].type = "number"

\* a caching instance with an onError callback
ValidationScenarios ==
  { <<[Options(<<TRUE, "GET", FALSE, FALSE>>) EXCEPT !.onError = "returns"], FALSE>>,
    <<[Options(<<TRUE, "POST", FALSE, TRUE>>) EXCEPT !.onError = "returns"], FALSE>> }

InitValidation == InitOf(ValidationScenarios)

NextValidation ==
  \/ onOpen
  \/ onClose
  \/ onClear
  \/ onScrollToEnd
  \/ Destroy
  \/ HttpSuccess
  \/ HttpFailure

SpecValidation == InitValidation /\ [][NextValidation]_vars

ValidationError == "Error: The response body must be an object"

\* the call that just ended was answered with a body that failed isValidData
ValidationFailed ==
  /\ HttpFailure
  /\ lastError' # <<>>
  /\ lastError'[1].error = ValidationError

\* C26: isValidData rejects exactly the bodies that are not an object holding
\* both configured keys with an array under the data key and a number under
\* the count key; a body it rejects reaches onError like any failed call, is
\* not merged into the loaded data and is not written to the cache, and the
\* cache only ever holds validated containers
C26_ValidationExactAndContained ==
  /\ [](\A rawData \in ResponseShapes :
          isValidData(mergedOptions.dataArrayKey, mergedOptions.totalDataCountKey, rawData)
            <=> WellFormed(mergedOptions.dataArrayKey, mergedOptions.totalDataCountKey, rawData))
  /\ [](\A k \in DOMAIN cache :
          /\ cache[k].totalCount \in Nat
          /\ cache[k].payload \in Seq(1..(DataSize + 1)))
  /\ [][ValidationFailed =>
          /\ cache' = cache
          /\ loadedData' = loadedData
          /\ mergedSeq' = mergedSeq
          /\ onErrorCalls' = onErrorCalls + 1
          /\ ~isLoading']_vars

\* a caching instance that has loaded and cached a page has just had the
\* next call rejected by the validation
C26_Witness ==
  /\ mergedOptions.useCache
  /\ lastError # <<>>
  /\ lastError[1].error = ValidationError
  /\ lastError[1].fetch = fetches
  /\ DOMAIN cache # {}
  /\ Len(loadedData.payload) > 0
  /\ inflight = {}
  /\ ~isLoading


\* ------------------------------------------------------------ Scenario A
\* a server whose items fill two pages and one item of a third: five items
\* read two per request
ScenarioALimit == DataLimit
ScenarioATotal == 2 * ScenarioALimit + 1

ScenarioAInstances ==
  { <<[Options(<<FALSE, "GET", som, FALSE>>) EXCEPT !.dataLimitPerRequest = ScenarioALimit],
      FALSE>> : som \in BOOLEAN }

InitScenarioA == InitServing(ScenarioAInstances, ScenarioATotal)

NextScenarioA ==
  \/ onOpen
  \/ onClose
  \/ onClear
  \/ onScrollToEnd
  \/ Destroy
  \/ HttpSuccess
  \/ HttpFailure

SpecScenarioA == InitScenarioA /\ [][NextScenarioA]_vars

\* onScrollToEnd() on w, and the fetch it starts settling with a valid response
scrollAndSettle(w) ==
  LET w1 == onScrollToEndOn(w)
  IN  IF w1.inflight = {} THEN w1
      ELSE httpSuccessOn(w1, CHOOSE r \in w1.inflight : TRUE, dataSetSize)

IdsOf(w) == [i \in 1..Len(w.loadedData.payload) |-> w.loadedData.payload[i].id]

FirstItems(n) == [i \in 1..n |-> i]

\* three successive onScrollToEnd() calls on w, each settled, load one page,
\* two pages and all the items, and report allLoaded only after the third
ThreeScrollsLoadAll(w) ==
  LET s1 == scrollAndSettle(w)
      s2 == scrollAndSettle(s1)
      s3 == scrollAndSettle(s2)
  IN  /\ IdsOf(s1) = FirstItems(ScenarioALimit) /\ ~s1.isAllDataLoaded
      /\ IdsOf(s2) = FirstItems(2 * ScenarioALimit) /\ ~s2.isAllDataLoaded
      /\ IdsOf(s3) = FirstItems(ScenarioATotal) /\ s3.isAllDataLoaded

\* C27 as stated: whenever no fetch is loading and nothing has been loaded,
\* three successive onScrollToEnd() calls yield all the items in order, with
\* allLoaded only after the third
C27_ThreeScrollsFromIdle ==
  (~destroyed /\ inflight = {} /\ loadedData.payload = <<>>)
    => ThreeScrollsLoadAll(W)

\* C27 amended: with the panel open, no fetch loading and nothing loaded, three
\* successive onScrollToEnd() calls yield all the items in order, with
\* allLoaded only after the third
C27_ThreeScrollsFromOpenAndEmpty ==
  (~destroyed /\ isSelectPanelOpen /\ inflight = {} /\ loadedData.payload = <<>>)
    => ThreeScrollsLoadAll(W)

\* a search-only instance, whose onOpen() fetches nothing, has loaded all the
\* items in three fetches, each started by onScrollToEnd()
C27_Witness ==
  /\ mergedOptions.searchOnlyMode
  /\ fetches = 3
  /\ [i \in 1..Len(mergedSeq) |-> mergedSeq[i].page] = <<1, 2, 3>>
  /\ IdsOf(W) = FirstItems(ScenarioATotal)
  /\ isAllDataLoaded
  /\ ~isLoading


\* ------------------------------------------- NgSelectHelper: specification
\* the instances explored: <<usePostRequest, useCache, initialSearchText>>
NgSelectHelperScenarios == { <<FALSE, FALSE, "">>, <<TRUE, TRUE, "jo">> }

InitHelper ==
  /\ InitState({<<Options(<<FALSE, "GET", FALSE, FALSE>>), FALSE>>}, DataSize)
  /\ tableState = offsetPaginatedPrimeNgTableState(TRUE)
  /\ tableHelper = TableStateHelper("paged")
  /\ storage = MemoizedDataStorage
  /\ signals = QueryParamSignals(FALSE)
  /\ \E sc \in NgSelectHelperScenarios : helper = NgSelectHelper(sc[1], sc[2], sc[3])

HelperBounded(h) ==
  /\ h.fetches <= (IF h.useCache THEN MaxCachedFetches ELSE MaxFetches)
  /\ h.page <= MaxPage

\* a method's result, within the exploration bounds
HelperDo(h) ==
  HelperBounded(h) /\ helper' = h /\ UNCHANGED <<stateVars, tableState, tableHelper, storage, signals>>

Call_init == HelperDo(init(helper))
Call_onOpen == HelperDo(NgSelectHelper_onOpen(helper))
Call_onScrollToEnd == HelperDo(NgSelectHelper_onScrollToEnd(helper))
Call_onClose == HelperDo(NgSelectHelper_onClose(helper))
Call_onClear == HelperDo(NgSelectHelper_onClear(helper))
Call_onBlur == HelperDo(onBlur(helper))
Call_resetAll == \E opts \in NgSelectHelperResetOpts : HelperDo(resetAll(helper, opts))
Call_patchQueryParams ==
  \E value \in NgSelectHelperQueryParams : HelperDo(NgSelectHelper_patchQueryParams(helper, value))
Call_setQueryParams ==
  \E value \in NgSelectHelperQueryParams : HelperDo(setQueryParams(helper, value))
Call_removeQueryParam == HelperDo(NgSelectHelper_removeQueryParam(helper, "a"))
Call_patchBody == \E value \in NgSelectHelperBodies : HelperDo(patchBody(helper, value))
Call_setBody == \E value \in NgSelectHelperBodies : HelperDo(NgSelectHelper_setBody(helper, value))
Call_clearCache == HelperDo(NgSelectHelper_clearCache(helper))
Call_inputSubjectNext == \E term \in SearchTerms : HelperDo(inputSubjectNext(helper, term))

\* the timer of debounceTime fires
Helper_DebounceElapsed ==
  /\ helper.debounced # <<>>
  /\ HelperDo(inputSwitchMap([helper EXCEPT !.debounced = <<>>], helper.debounced[1]))

\* the DestroyRef fires, once
Helper_Destroy == ~helper.destroyed /\ HelperDo(NgSelectHelper_onDestroy(helper))

Helper_HttpSuccess == \E r \in helper.requests : HelperDo(requestSucceeds(helper, r))

Helper_HttpFailure == \E r \in helper.requests : HelperDo(requestFails(helper, r))

NextHelper ==
  \/ Call_init
  \/ Call_onOpen
  \/ Call_onScrollToEnd
  \/ Call_onClose
  \/ Call_onClear
  \/ Call_onBlur
  \/ Call_resetAll
  \/ Call_patchQueryParams
  \/ Call_setQueryParams
  \/ Call_removeQueryParam
  \/ Call_patchBody
  \/ Call_setBody
  \/ Call_clearCache
  \/ Call_inputSubjectNext
  \/ Helper_DebounceElapsed
  \/ Helper_Destroy
  \/ Helper_HttpSuccess
  \/ Helper_HttpFailure

SpecHelper == InitHelper /\ [][NextHelper]_vars

HelperTypeOK ==
  /\ helper.page \in 1..MaxPage
  /\ helper.httpCalls <= helper.fetches
  /\ helper.runningApiReq = Null
  /\ \A r \in helper.requests : r.pipe \in {"input", "loadMore"}


\* C28: a load-more call that was in flight when resetAll() ran never has its
\* response appended to loadedData
C28_SupersededLoadMoreNeverAppended ==
  [][\A r \in helper.requests :
       (r.pipe = "loadMore" /\ r.superseded /\ helper' = requestSucceeds(helper, r))
         => helper'.loadedData.payload = helper.loadedData.payload]_vars

\* C29: an instance of NgSelectHelper has at most one HTTP call outstanding
C29_AtMostOneOutstanding == Cardinality(helper.requests) <= 1

\* C30: isLastApiCallSuccessful turns false only in a step in which an HTTP
\* call fails; in particular a trigger that issues no call leaves it as it is
C30_FalseOnlyAfterFailedCall ==
  [][(helper.isLastApiCallSuccessful /\ ~helper'.isLastApiCallSuccessful)
       => Helper_HttpFailure]_vars


\* ---------------------------------------------------------- initNgSelect
\* the next callback of initNgSelect for an array that holds h: a helper
\* that is not initialised is initialised and onAjaxError is subscribed to
\* its ajaxError$; a helper that is initialised is filtered out
initNgSelectNext(h) ==
  LET h1 == [h EXCEPT !.emitted = TRUE]
  IN  IF h1.initDone THEN h1
      ELSE [init(h1) EXCEPT !.ajaxErrorSubscribers = @ + 1]

\* helpers$ emits an array that holds the helper; takeUntilDestroyed has
\* unsubscribed initNgSelect once the DestroyRef has fired
Emit_helpers == ~helper.destroyed /\ HelperDo(initNgSelectNext(helper))

\* a component that has called initNgSelect and may call init() itself
NextInitNgSelect ==
  \/ Emit_helpers
  \/ Call_init
  \/ Call_onOpen
  \/ Call_onScrollToEnd
  \/ Call_onClear
  \/ Call_inputSubjectNext
  \/ Helper_DebounceElapsed
  \/ Helper_Destroy
  \/ Helper_HttpSuccess
  \/ Helper_HttpFailure

SpecInitNgSelect == InitHelper /\ [][NextInitNgSelect]_vars

\* C31: a helper that helpers$ has emitted has its pipelines initialised, and
\* each error it emits on ajaxError$ is delivered to onAjaxError exactly once
C31_EmittedHelperInitialisedAndReported ==
  /\ [](helper.emitted => helper.initDone)
  /\ [][(Helper_HttpFailure /\ ~helper.destroyed /\ helper.emitted)
          => helper'.onAjaxErrorCalls = helper.onAjaxErrorCalls + 1]_vars


\* ------------------------------------------------ debounce configuration
\* the arguments of setDebounceTimeInSecond explored, in tenths of a second:
\* -1 s, 0 s, 0.5 s, 1 s, 2 s
DebounceInputs == {-10, 0, 5, 10, 20}

Call_setDebounceTimeInSecond ==
  \E sec \in DebounceInputs : HelperDo(setDebounceTimeInSecond(helper, sec))

NextDebounce ==
  \/ Call_setDebounceTimeInSecond
  \/ Call_init
  \/ Call_onOpen
  \/ Call_inputSubjectNext
  \/ Helper_DebounceElapsed
  \/ Helper_Destroy
  \/ Helper_HttpSuccess
  \/ Helper_HttpFailure

SpecDebounce == InitHelper /\ [][NextDebounce]_vars

\* C32: after setDebounceTimeInSecond(s) with s > 0 the quiet window of the
\* search pipeline, once subscribed, is s seconds, that is s * 1000 ms
C32_QuietWindowIsSeconds ==
  \A sec \in {d \in DebounceInputs : d > 0} :
    LET h == init(setDebounceTimeInSecond(helper, sec))
    IN  h.debounceDueTimeMs * OneSecond = sec * 1000


\* --------------------- offsetPaginatedPrimeNgTableState: specification
InitTable ==
  /\ InitState({<<Options(<<FALSE, "GET", FALSE, FALSE>>), FALSE>>}, DataSize)
  /\ helper = NgSelectHelper(FALSE, FALSE, "")
  /\ tableHelper = TableStateHelper("paged")
  /\ storage = MemoizedDataStorage
  /\ signals = QueryParamSignals(FALSE)
  /\ \E predicate \in BOOLEAN : tableState = offsetPaginatedPrimeNgTableState(predicate)

\* an operation's result, within the exploration bounds
TableDo(t) ==
  /\ t.httpCalls <= MaxFetches
  /\ tableState' = t
  /\ UNCHANGED <<stateVars, helper, tableHelper, storage, signals>>

Table_OnLazyLoad ==
  \E event \in TableLazyLoadEvents : TableDo(Table_onLazyLoad(tableState, event))

Table_SetPredicate == \E value \in BOOLEAN : TableDo(Table_setPredicate(tableState, value))

Table_EffectRuns == tableState.effectPending /\ TableDo(Table_effect(tableState))

Table_Destroy == ~tableState.destroyed /\ TableDo(Table_onDestroy(tableState))

Table_HttpSuccess ==
  \E r \in tableState.inflight : TableDo(Table_requestSucceeds(tableState, r))

Table_HttpFailure ==
  \E r \in tableState.inflight : TableDo(Table_requestFails(tableState, r))

NextTable ==
  \/ Table_OnLazyLoad
  \/ Table_SetPredicate
  \/ Table_EffectRuns
  \/ Table_Destroy
  \/ Table_HttpSuccess
  \/ Table_HttpFailure

SpecTable == InitTable /\ [][NextTable]_vars

TableTypeOK ==
  /\ Cardinality(tableState.inflight) <= 1
  /\ tableState.isLoading = (tableState.inflight # {})
  /\ tableState.totalRecords = tableState.loadedData.totalCount

\* the page and limit of the most recent onLazyLoad event
Table_latest == [page |-> tableState.currentPage, limit |-> tableState.currentLimit]

\* C34: a response that is applied to data and totalRecords is the response
\* to the most recent onLazyLoad event; the response to an earlier event is
\* never applied
C34_OnlyLatestEventApplied ==
  [][\A r \in tableState.inflight :
       (tableState' = Table_requestSucceeds(tableState, r))
         => /\ r = Table_latest
            /\ tableState'.loadedData = Table_response(Table_latest)
            /\ tableState'.totalRecords = Table_response(Table_latest).totalCount]_vars

\* two events for different pages were made while the first call was in
\* flight, and the data shown are those of the second
C34_Witness ==
  /\ tableState.superseded
  /\ tableState.httpCalls = 2
  /\ tableState.inflight = {}
  /\ tableState.currentPage = 2
  /\ tableState.loadedData = Table_response(Table_latest)
  /\ tableState.loadedData.payload # <<>>


\* C36: while the predicate signal is false no transport call is issued and
\* no fetched response is applied to data or totalRecords, and an onLazyLoad
\* made then leaves data empty and totalRecords 0
C36_NothingFetchedWhilePredicateFalse ==
  /\ []((~tableState.predicate /\ ~tableState.destroyed) =>
          \A event \in TableLazyLoadEvents :
            LET t == Table_onLazyLoad(tableState, event)
            IN  /\ t.loadedData.payload = <<>>
                /\ t.totalRecords = 0
                /\ t.httpCalls = tableState.httpCalls)
  /\ [][~tableState.predicate =>
          /\ tableState'.httpCalls = tableState.httpCalls
          /\ \A r \in tableState.inflight :
               (tableState' = Table_requestSucceeds(tableState, r))
                 => /\ tableState'.loadedData = tableState.loadedData
                    /\ tableState'.totalRecords = tableState.totalRecords]_vars


\* ----------------------------------- table state helpers: specification
InitTableHelper ==
  /\ InitState({<<Options(<<FALSE, "GET", FALSE, FALSE>>), FALSE>>}, DataSize)
  /\ helper = NgSelectHelper(FALSE, FALSE, "")
  /\ tableState = offsetPaginatedPrimeNgTableState(TRUE)
  /\ storage = MemoizedDataStorage
  /\ signals = QueryParamSignals(FALSE)
  /\ \E kind \in {"paged", "dynamic"} : tableHelper = TableStateHelper(kind)

TableHelperDo(th) ==
  /\ th.calls <= MaxFetches
  /\ tableHelper' = th
  /\ UNCHANGED <<stateVars, helper, tableState, storage, signals>>

TableHelper_OnLazyLoad ==
  \E event \in TableLazyLoadEvents : TableHelperDo(TableStateHelper_onLazyLoad(tableHelper, event))

TableHelper_ClearTableData == TableHelperDo(TableStateHelper_clearTableData(tableHelper))

TableHelper_Refresh == TableHelperDo(TableStateHelper_refresh(tableHelper))

TableHelper_FetchSucceeds ==
  \E c \in tableHelper.pending : TableHelperDo(TableStateHelper_fetchSucceeds(tableHelper, c))

TableHelper_FetchFails ==
  \E c \in tableHelper.pending : TableHelperDo(TableStateHelper_fetchFails(tableHelper, c))

NextTableHelper ==
  \/ TableHelper_OnLazyLoad
  \/ TableHelper_ClearTableData
  \/ TableHelper_Refresh
  \/ TableHelper_FetchSucceeds
  \/ TableHelper_FetchFails

SpecTableHelper == InitTableHelper /\ [][NextTableHelper]_vars

\* C33: when the request or the validation behind a table state helper's
\* fetch fails, the promise the caller awaits is rejected
C33_FailureRejectsPromise ==
  [][TableHelper_FetchFails => tableHelper'.lastPromise = "rejected"]_vars

\* C35: in PrimengPagedDataTableStateHelper, once no fetch is pending and the
\* latest response was applied, data and totalRecords are those of the page
\* requested most recently
C35_LatestPageShown ==
  (tableHelper.kind = "paged" /\ tableHelper.pending = {} /\ tableHelper.data # <<>>)
    => /\ tableHelper.data = PageItems(tableHelper.page, tableHelper.limit)
       /\ tableHelper.totalRecords = dataSetSize

\* ---------------------------------- MemoizedDataStorage: specification
InitStorage ==
  /\ InitState({<<Options(<<FALSE, "GET", FALSE, FALSE>>), FALSE>>}, DataSize)
  /\ helper = NgSelectHelper(FALSE, FALSE, "")
  /\ tableState = offsetPaginatedPrimeNgTableState(TRUE)
  /\ tableHelper = TableStateHelper("paged")
  /\ storage = MemoizedDataStorage
  /\ signals = QueryParamSignals(FALSE)

StorageDo(st) ==
  /\ st.calls <= MaxFetches
  /\ storage' = st
  /\ UNCHANGED <<stateVars, helper, tableState, tableHelper, signals>>

Storage_LoadSingleData ==
  \E url \in StorageUrls, queryParams \in StorageParams :
    StorageDo(loadSingleData(storage, url, queryParams))

Storage_DisableMemoizationOnNextRead == StorageDo(disableMemoizationOnNextRead(storage))

Storage_Clear == StorageDo(Storage_clear(storage))

Storage_HttpSuccess == \E c \in storage.pending : StorageDo(loadSingleDataSucceeds(storage, c))

Storage_HttpFailure == \E c \in storage.pending : StorageDo(loadSingleDataFails(storage, c))

NextStorage ==
  \/ Storage_LoadSingleData
  \/ Storage_DisableMemoizationOnNextRead
  \/ Storage_Clear
  \/ Storage_HttpSuccess
  \/ Storage_HttpFailure

SpecStorage == InitStorage /\ [][NextStorage]_vars

\* C40: after loadSingleData(url, params) has resolved successfully,
\* singleData() holds the response for that url and those params
C40_SingleDataIsForRequestedUrl ==
  (storage.resolved # <<>> /\ storage.pending = {})
    => storage.singleData = <<Storage_response(storage.resolved[1].url,
                                               storage.resolved[1].params)>>


\* C37: every cache entry was written by the successful, validated response
\* of a call that had not been aborted, under the key string of that call;
\* no other step creates or changes an entry, a failed or rejected response
\* leaves the cache as it is, and without useCache the cache stays empty
C37_CacheHoldsOnlyAnsweredRequests ==
  /\ [](~mergedOptions.useCache => cache = EmptyMap)
  /\ [](\A k \in DOMAIN served :
          /\ cache[JSONstringify(k)] = served[k]
          /\ \E p \in 1..MaxPage, tc \in ReportedTotals(driftingServer) :
               /\ served[k] = dataInContainer(mergedOptions,
                                ResponseBody(p, mergedOptions.dataLimitPerRequest, tc))
               /\ ObjGet(k.queryParams, mergedOptions.pageQueryParamKey) = ToString(p))
  /\ [][\A s \in DOMAIN cache' :
          (s \notin DOMAIN cache \/ cache'[s] # cache[s])
            => \E r \in inflight, tc \in ReportedTotals(driftingServer) :
                 /\ r.strKey = s
                 /\ ~r.stale
                 /\ isValidData(mergedOptions.dataArrayKey, mergedOptions.totalDataCountKey,
                                ResponseBody(r.page, mergedOptions.dataLimitPerRequest, tc))
                 /\ cache'[s] = dataInContainer(mergedOptions,
                                  ResponseBody(r.page, mergedOptions.dataLimitPerRequest, tc))
                 /\ Do(httpSuccessOn(W, r, tc))]_vars
  /\ [][HttpFailure => cache' = cache]_vars

\* a caching instance has made two HTTP calls: one was aborted, the other was
\* answered and is the only entry of the cache
C37_Witness ==
  /\ mergedOptions.useCache
  /\ httpCalls = 2
  /\ aborted
  /\ inflight = {}
  /\ Cardinality(DOMAIN cache) = 1


\* ------------------------------------------- scrolling to the end of data
\* instances with and without caching and searchOnlyMode, each against a
\* server that holds a fixed data set of 0..DataSize items
ScrollInstances ==
  { <<Options(<<c, "GET", som, FALSE>>), FALSE>> : c \in BOOLEAN, som \in BOOLEAN }

InitScroll == \E n \in 0..DataSize : InitServing(ScrollInstances, n)

\* the panel is opened and closed and scrolled to its end, and every call is
\* answered with a valid body: no call fails and nothing is reset
NextScroll ==
  \/ onOpen
  \/ onClose
  \/ onScrollToEnd
  \/ HttpSuccess

SpecScroll == InitScroll /\ [][NextScroll]_vars

\* n successive onScrollToEnd() calls on w, each settled before the next
RECURSIVE scrollTimes(_, _)
scrollTimes(w, n) == IF n = 0 THEN w ELSE scrollTimes(scrollAndSettle(w), n - 1)

\* C38: with the panel open and no fetch loading, one onScrollToEnd() call
\* per item of the data set and one more, each settled before the next, end
\* with allLoaded true, and a further call issues no transport call
C38_ScrollingReachesAllLoaded ==
  (isSelectPanelOpen /\ inflight = {})
    => LET w == scrollTimes(W, dataSetSize + 1)
       IN  /\ w.isAllDataLoaded
           /\ onScrollToEndOn(w).httpCalls = w.httpCalls
           /\ onScrollToEndOn(w).fetches = w.fetches


\* ----------------------------- the signals behind finalQueryParams: steps
\* signal.set(value) of a signal that holds a string, a number or null: the
\* computed is notified when the value differs under Object.is
Signal_setCurrentPage(s, value) ==
  IF s.currentPage = value THEN s
  ELSE [s EXCEPT !.currentPage = value, !.memo = <<>>]

Signal_setSearchText(s, value) ==
  IF s.searchText = value THEN s
  ELSE [s EXCEPT !.searchText = value, !.memo = <<>>]

\* reading the computed (the queryParams signal of the returned object, and
\* the params and the cache key of loadDataFromApi): the memoized value if it
\* is current, or else a new evaluation
Signal_finalQueryParams(s) ==
  IF s.memo # <<>> THEN s
  ELSE [s EXCEPT !.memo = <<finalQueryParams(s)>>]

\* the value that reading the computed in s returns
queryParamsOf(s) == Signal_finalQueryParams(s).memo[1]

\* reset(), as far as the computed reads what it writes
Signal_reset(s) == Signal_setSearchText(Signal_setCurrentPage(s, 1), Null)

\* update() with a function that returns a new object: the computed is notified
Signal_patchQueryParam(s, value) ==
  LET kept == withoutBlackListed(s.mergedOptions, value)
  IN  IF Len(kept) > 0
        THEN [Signal_reset(s) EXCEPT !.queryParamsFromUser = Spread(@, kept),
                                     !.memo = <<>>]
        ELSE s

\* a removeQueryParam whose update() returns a copy without the key
Signal_removeQueryParamCopies(s, key) ==
  [Signal_reset(s) EXCEPT !.queryParamsFromUser = ObjDelete(@, key), !.memo = <<>>]

\* removeQueryParam: reset(), then update() with a function that deletes the
\* key from the object it is given and returns that object; the signal holds
\* the object it held, so nothing is notified
Signal_removeQueryParam(s, key) ==
  IF s.deletesInPlace
    THEN [Signal_reset(s) EXCEPT !.queryParamsFromUser = ObjDelete(@, key)]
    ELSE Signal_removeQueryParamCopies(s, key)

\* set({}): a new object
Signal_removeAllQueryParams(s) ==
  [Signal_reset(s) EXCEPT !.queryParamsFromUser = <<>>, !.memo = <<>>]

\* onScrollToEnd after a successful page: the page is incremented and
\* loadDataFromApi reads the computed
Signal_onScrollToEnd(s) ==
  Signal_finalQueryParams(Signal_setCurrentPage(s, s.currentPage + 1))

\* the settled search term: reset(), searchText.set(term), loadDataFromApi
Signal_searchSettled(s, term) ==
  Signal_finalQueryParams(Signal_setSearchText(Signal_reset(s), term))

InitSignals ==
  /\ InitState({<<Options(<<FALSE, "GET", FALSE, FALSE>>), FALSE>>}, DataSize)
  /\ helper = NgSelectHelper(FALSE, FALSE, "")
  /\ tableState = offsetPaginatedPrimeNgTableState(TRUE)
  /\ tableHelper = TableStateHelper("paged")
  /\ storage = MemoizedDataStorage
  /\ \E deletesInPlace \in BOOLEAN : signals = QueryParamSignals(deletesInPlace)

SignalsDo(s) ==
  /\ s.currentPage <= MaxPage
  /\ signals' = s
  /\ UNCHANGED <<stateVars, helper, tableState, tableHelper, storage>>

Signals_Read == SignalsDo(Signal_finalQueryParams(signals))

Signals_Reset == SignalsDo(Signal_reset(signals))

Signals_PatchQueryParam ==
  \E value \in PatchValues(signals.mergedOptions) :
    SignalsDo(Signal_patchQueryParam(signals, value))

Signals_RemoveQueryParam ==
  \E key \in ParamKeys : SignalsDo(Signal_removeQueryParam(signals, key))

Signals_RemoveAllQueryParams == SignalsDo(Signal_removeAllQueryParams(signals))

Signals_OnScrollToEnd == SignalsDo(Signal_onScrollToEnd(signals))

Signals_SearchSettled ==
  \E term \in SearchTerms : SignalsDo(Signal_searchSettled(signals, term))

NextSignals ==
  \/ Signals_Read
  \/ Signals_Reset
  \/ Signals_PatchQueryParam
  \/ Signals_RemoveQueryParam
  \/ Signals_RemoveAllQueryParams
  \/ Signals_OnScrollToEnd
  \/ Signals_SearchSettled

SpecSignals == InitSignals /\ [][NextSignals]_vars

\* C39: after removeQueryParam(key) the parameters that the queryParams
\* signal returns, which are those of the next request, do not contain key,
\* and every other parameter the caller supplied is there with its value
C39_RemovedKeyIsGone ==
  \A key \in ParamKeys :
    LET s == Signal_removeQueryParam(signals, key)
        now == queryParamsOf(s)
    IN  /\ key \notin ObjKeys(now)
        /\ \A i \in DOMAIN signals.queryParamsFromUser :
             LET p == signals.queryParamsFromUser[i]
             IN  p[1] # key => \E j \in DOMAIN now : now[j] = p

====
